---- MODULE Spec2Model ----
(***************************************************************************)
(* A model of the photo organizer's cache layer (BaseFileInfoJob.process)  *)
(* and of its deduplication engine (MediaComparator).                      *)
(*                                                                         *)
(* Several specifications share the module:                                *)
(*   SpecJob    - concurrent process(path) calls on one BaseFileInfoJob    *)
(*   SpecMerge  - mergeAndDeduplicate applied to a list of clusters        *)
(*   SpecDedup  - deduplicateFiles on a list of media files                *)
(*   SpecParallel - its first part, parallelDBSCAN                         *)
(*   SpecKernel - hammingDistance, popcount64, the similarity functions   *)
(*                and the metric of the tree, applied to hashes and media  *)
(*   SpecMain   - main: the four stages, the signal handler and the exit   *)
(*   SpecWorker - workerDBSCAN on one batch, statement by statement         *)
(*   SpecVideo  - the window loop of calculateVideoSimilarity               *)
(*   SpecDiscover - discoverFiles and its scanDirectory calls               *)
(* Each leaves the variables of the others at their idle values.           *)
(***************************************************************************)
EXTENDS Integers, Sequences, FiniteSets, TLC

VARIABLES
    \* ---- BaseFileInfoJob ----
    files,        \* the file system: path -> content
    config,       \* this.config of the running job instance
    db,           \* this.db: cache key -> stored result
    configDb,     \* this.configDb: cache key -> stored config
    locks,        \* the Mutex objects handed out by getLock
    calls,        \* the process() calls of this run and where each stands
    \* ---- mergeAndDeduplicate ----
    pcM,          \* "input", "merged", "remerged" or "permuted"
    clustersIn,   \* the argument: the clusters of all batches, flattened
    mergedOut,    \* mergeAndDeduplicate(clustersIn)
    secondOut,    \* the result of the second application
    \* ---- deduplicateFiles ----
    pcD,               \* "start", "dbscan", "results", "done" or "failed"
    filesIn,           \* the argument files
    fileInfo,          \* what selector / processFile gives for each path
    similarityConfig,  \* this.similarityConfig
    vpTree,            \* the root of the tree built over filesIn
    results,           \* per batch: the clusters of its worker, its rejection,
                       \* or Pending
    clustersD,         \* the merged clusters, then those not yet processed
    dedupResult,       \* processResults: uniqueFiles (a Set, in insertion order)
                       \* and the array duplicateSets
    recursiveCalls,    \* the deduplicateFiles calls made by handleMultiFrameBest:
                       \* the cluster, the files passed, the depth reached
    \* ---- the similarity kernel ----
    pcK,          \* "input" or "done"
    argsK,        \* the function applied and its two arguments
    outK,         \* what it gives for (a, b), (b, a) and (a, a)
    \* ---- main ----
    pcMain,           \* the await main stands at: "init", "stage1" .. "stage4";
                      \* "returned" once main is over, "exited" once the process is
    completed,        \* the stages whose promise was fulfilled
    discoveredFiles,  \* stage 1: the number of files discovered
    gatherFileInfoResult,  \* stage 2: the number of validFiles
    deduplicationResult,   \* stage 3: the number of uniqueFiles
    transferInvoked,  \* organizer.transferFiles has been called
    thrown,           \* the await that rejected, or "none"
    interrupted,      \* exitHandler has run
    exitCode,         \* the code the process exited with, "none" while it runs
    \* ---- workerDBSCAN ----
    pcW,          \* "for", "while" or "done"
    chunkW,       \* the batch
    iW,           \* the position of the for loop in the batch
    visitedW,     \* visited
    clustersW,    \* clusters
    clusterW,     \* cluster, the one being grown
    stackW,       \* stack, popped at its end
    validNeighborsW,  \* per file of the tree, what getValidNeighbors answers
    neighborsW,   \* the last getValidNeighbors call: its point and its result
    callsW,       \* per file, the getValidNeighbors calls made for it
    \* ---- calculateVideoSimilarity ----
    pcV,               \* "start", "loop" or "done"
    argsV,             \* media1 and media2
    startTimeV,        \* startTime
    bestSimilarityV,   \* bestSimilarity
    windowSimilarityV, \* per start time, the windowSimilarity of lines 449-461
    \* ---- discoverFiles ----
    pcF,          \* "start", "wait" (at waitForUnlock) or "done"
    treeF,        \* the directory tree under the source and the concurrency
    semaphore,    \* the Semaphore: its value and the queue of its waiters
    scans,        \* per directory, where its scanDirectory call stands
    allFiles      \* allFiles

jobVars == <<files, config, db, configDb, locks, calls>>
mergeVars == <<pcM, clustersIn, mergedOut, secondOut>>

dedupVars == <<pcD, filesIn, fileInfo, similarityConfig, vpTree, results,
               clustersD, dedupResult, recursiveCalls>>

kernelVars == <<pcK, argsK, outK>>

mainVars == <<pcMain, completed, discoveredFiles, gatherFileInfoResult,
              deduplicationResult, transferInvoked, thrown, interrupted, exitCode>>

workerVars == <<pcW, chunkW, iW, visitedW, clustersW, clusterW, stackW,
                validNeighborsW, neighborsW, callsW>>

videoVars == <<pcV, argsV, startTimeV, bestSimilarityV, windowSimilarityV>>

discoverVars == <<pcF, treeF, semaphore, scans, allFiles>>

vars == <<jobVars, mergeVars, dedupVars, kernelVars, mainVars, workerVars, videoVars,
          discoverVars>>

\* What the actions of one part leave unchanged.
notJob == <<mergeVars, dedupVars, kernelVars, mainVars, workerVars, videoVars,
    discoverVars>>
notMerge == <<jobVars, dedupVars, kernelVars, mainVars, workerVars, videoVars,
    discoverVars>>
notDedup == <<jobVars, mergeVars, kernelVars, mainVars, workerVars, videoVars,
    discoverVars>>
notKernel == <<jobVars, mergeVars, dedupVars, mainVars, workerVars, videoVars,
    discoverVars>>
notMain == <<jobVars, mergeVars, dedupVars, kernelVars, workerVars, videoVars,
    discoverVars>>
notWorker == <<jobVars, mergeVars, dedupVars, kernelVars, mainVars, videoVars,
    discoverVars>>
notVideo == <<jobVars, mergeVars, dedupVars, kernelVars, mainVars, workerVars, discoverVars>>
notDiscover == <<jobVars, mergeVars, dedupVars, kernelVars, mainVars, workerVars, videoVars>>

\* The values the variables of a part keep while another part runs.
JobIdle ==
    /\ files = <<>> /\ config = "" /\ db = <<>> /\ configDb = <<>>
    /\ locks = <<>> /\ calls = <<>>

MergeIdle ==
    /\ pcM = "" /\ clustersIn = <<>> /\ mergedOut = <<>> /\ secondOut = <<>>

DedupIdle ==
    /\ pcD = "" /\ filesIn = <<>> /\ fileInfo = <<>> /\ similarityConfig = <<>>
    /\ vpTree = <<>> /\ results = <<>> /\ clustersD = <<>>
    /\ dedupResult = <<>> /\ recursiveCalls = {}

KernelIdle ==
    /\ pcK = "" /\ argsK = <<>> /\ outK = <<>>

MainIdle ==
    /\ pcMain = "" /\ completed = {} /\ discoveredFiles = 0
    /\ gatherFileInfoResult = 0 /\ deduplicationResult = 0
    /\ transferInvoked = FALSE /\ thrown = ""
    /\ interrupted = FALSE /\ exitCode = ""

WorkerIdle ==
    /\ pcW = "" /\ chunkW = <<>> /\ iW = 0 /\ visitedW = {}
    /\ clustersW = <<>> /\ clusterW = {} /\ stackW = <<>>
    /\ validNeighborsW = <<>> /\ neighborsW = <<>> /\ callsW = <<>>

VideoIdle ==
    /\ pcV = "" /\ argsV = <<>> /\ startTimeV = 0 /\ bestSimilarityV = 0
    /\ windowSimilarityV = <<>>

DiscoverIdle ==
    /\ pcF = "" /\ treeF = <<>> /\ semaphore = <<>> /\ scans = <<>> /\ allFiles = <<>>

(***************************************************************************)
(* BaseFileInfoJob                                                         *)
(***************************************************************************)

\* Number of process() calls issued in one run of the program.
NumCalls == 2

Calls == 1..NumCalls
Paths == {"a.jpg", "b.jpg"}
Contents == {"x", "y"}
\* The files the environment rewrites; the others keep the content "x".
Rewritable == {"a.jpg"}

\* Values a numeric option takes after the CLI's parseFloat.
ConfigValues == {"0.9", "NaN", "Infinity"}
UndefinedConfig == "undefined"

\* lmdb's get() of a key that was never put.
Undefined == [kind |-> "undefined"]

\* JSON.stringify of a one-field config record: a non-finite number is
\* written as null; JSON.stringify(undefined) is undefined, not a string.
JSONstringify(c) ==
    CASE c = UndefinedConfig -> "undefined"
      [] c \in {"NaN", "Infinity"} -> "{\"threshold\":null}"
      [] OTHER -> "{\"threshold\":" \o c \o "}"

isConfigValidNever(cachedConfig, cfg) == FALSE

\* BaseFileInfoJob.isConfigValid
isConfigValid(cachedConfig, cfg) == JSONstringify(cachedConfig) = JSONstringify(cfg)

\* BaseFileInfoJob.getHashKey
getHashKey(filePath) == filePath

Keys == {getHashKey(p) : p \in Paths}

\* getLock = memoizee(() => new Mutex()): the memoized function declares no
\* parameter, so memoizee keeps one cache slot and every call, whatever its
\* argument, receives the Mutex created by the first call.
getLock(cacheKey) == "data"

LockIds == {getLock(k) : k \in Keys}

\* The contents for which the job's result is a falsy value (0, "", null or
\* false, which TResult allows); for the others it is an object.
FalsyContents == {"y"}

\* The abstract processFile: a result determined by the file's content and
\* by the job's config.
processFile(content, cfg) ==
    [kind |-> IF content \in FalsyContents THEN "falsy" ELSE "object",
     content |-> content, cfg |-> cfg]

\* if (cachedResult)
Truthy(v) == v.kind = "object"

\* A call: where it stands, its argument and key, whether it had to queue for
\* the lock, how often it invoked processFile, and what it returned.
IdleCall == [pc |-> "idle", path |-> "", key |-> "", waited |-> FALSE,
             result |-> Undefined, ran |-> 0]

FreeLock == [holder |-> 0, queue |-> <<>>]

\* Mutex.acquire as runExclusive calls it: taken at once when free, else queued.
acquire(lk, c) ==
    IF lk.holder = 0 THEN [lk EXCEPT !.holder = c]
    ELSE [lk EXCEPT !.queue = Append(@, c)]

\* Mutex.release: the lock goes to the longest-waiting caller.
release(lk) ==
    IF lk.queue = <<>> THEN [lk EXCEPT !.holder = 0]
    ELSE [holder |-> Head(lk.queue), queue |-> Tail(lk.queue)]

Holds(c) == locks[getLock(calls[c].key)].holder = c

\* The lock table after c's callback has settled: runExclusive releases the
\* lock c holds.
Released(c) ==
    IF Holds(c) THEN [locks EXCEPT ![getLock(calls[c].key)] = release(@)] ELSE locks

InitJob ==
    /\ KernelIdle
    /\ MainIdle
    /\ WorkerIdle
    /\ VideoIdle
    /\ DiscoverIdle
    /\ files \in {f \in [Paths -> Contents] : \A p \in Paths \ Rewritable : f[p] = "x"}
    /\ config \in ConfigValues
    /\ db = [k \in Keys |-> Undefined]
    /\ configDb = [k \in Keys |-> UndefinedConfig]
    /\ locks = [l \in LockIds |-> FreeLock]
    /\ calls = [c \in Calls |-> IdleCall]
    /\ MergeIdle
    /\ DedupIdle

\* The callback entered without taking the lock.
ProcessUnlocked(c, p) ==
    /\ calls[c].pc = "idle"
    /\ \A b \in Calls : b < c => calls[b].pc # "idle"
    /\ calls' = [calls EXCEPT ![c] =
           [IdleCall EXCEPT !.pc = "locked", !.path = p, !.key = getHashKey(p)]]
    /\ UNCHANGED <<notJob, files, config, db, configDb, locks>>

\* process(filePath), lines 29-31: the key, then runExclusive on its lock.
\* Calls are numbered in the order in which they are issued.
Process(c, p) ==
    /\ calls[c].pc = "idle"
    /\ \A b \in Calls : b < c => calls[b].pc # "idle"
    /\ LET key == getHashKey(p)
           lk == acquire(locks[getLock(key)], c)
       IN /\ locks' = [locks EXCEPT ![getLock(key)] = lk]
          /\ calls' = [calls EXCEPT ![c] =
                 [IdleCall EXCEPT !.pc = IF lk.holder = c THEN "locked" ELSE "waiting",
                                  !.waited = (lk.holder # c),
                                  !.path = p, !.key = key]]
    /\ UNCHANGED <<notJob, files, config, db, configDb>>

\* A queued caller whose turn has come enters the callback.
Enter(c) ==
    /\ calls[c].pc = "waiting"
    /\ Holds(c)
    /\ calls' = [calls EXCEPT ![c].pc = "locked"]
    /\ UNCHANGED <<notJob, files, config, db, configDb, locks>>

\* Lines 32-38: the stored config is valid and a result is stored: return it.
LookupHit(c) ==
    /\ calls[c].pc = "locked"
    /\ isConfigValid(configDb[calls[c].key], config)
    /\ Truthy(db[calls[c].key])
    /\ calls' = [calls EXCEPT ![c].pc = "done", ![c].result = db[calls[c].key]]
    /\ locks' = Released(c)
    /\ UNCHANGED <<notJob, files, config, db, configDb>>

\* Lines 32-38 otherwise: fall through to the compute step.
LookupMiss(c) ==
    /\ calls[c].pc = "locked"
    /\ ~(isConfigValid(configDb[calls[c].key], config) /\ Truthy(db[calls[c].key]))
    /\ calls' = [calls EXCEPT ![c].pc = "compute"]
    /\ UNCHANGED <<notJob, files, config, db, configDb, locks>>

\* Line 40: processFile resolves.
ProcessFile(c) ==
    /\ calls[c].pc = "compute"
    /\ calls' = [calls EXCEPT ![c].pc = "store",
                              ![c].result = processFile(files[calls[c].path], config),
                              ![c].ran = @ + 1]
    /\ UNCHANGED <<notJob, files, config, db, configDb, locks>>

\* A rejection of processFile that leaves the lock with the rejected call.
ProcessFileFailsHoldsLock(c) ==
    /\ calls[c].pc = "compute"
    /\ calls' = [calls EXCEPT ![c].pc = "failed", ![c].ran = @ + 1]
    /\ UNCHANGED <<notJob, files, config, db, configDb, locks>>

\* Line 40: processFile rejects (the file cannot be read); process rejects.
ProcessFileFails(c) ==
    /\ calls[c].pc = "compute"
    /\ calls' = [calls EXCEPT ![c].pc = "failed", ![c].ran = @ + 1]
    /\ locks' = Released(c)
    /\ UNCHANGED <<notJob, files, config, db, configDb>>

\* Lines 41-45: both puts resolve and the result is returned.
Store(c) ==
    /\ calls[c].pc = "store"
    /\ db' = [db EXCEPT ![calls[c].key] = calls[c].result]
    /\ configDb' = [configDb EXCEPT ![calls[c].key] = config]
    /\ calls' = [calls EXCEPT ![c].pc = "done"]
    /\ locks' = Released(c)
    /\ UNCHANGED <<notJob, files, config>>

\* Lines 41-44: one of the two puts rejects, so Promise.all and process
\* reject; the other put may or may not have been written.
StoreFails(c, dataWritten, configWritten) ==
    /\ calls[c].pc = "store"
    /\ ~(dataWritten /\ configWritten)
    /\ db' = IF dataWritten THEN [db EXCEPT ![calls[c].key] = calls[c].result] ELSE db
    /\ configDb' = IF configWritten THEN [configDb EXCEPT ![calls[c].key] = config]
                   ELSE configDb
    /\ calls' = [calls EXCEPT ![c].pc = "failed"]
    /\ locks' = Released(c)
    /\ UNCHANGED <<notJob, files, config>>

Settled(c) == calls[c].pc \in {"idle", "done", "failed"}

\* The environment rewrites a file between two runs of the program.
ModifyFile(p, content) ==
    /\ \A c \in Calls : calls[c].pc = "idle"
    /\ files[p] # content
    /\ files' = [files EXCEPT ![p] = content]
    /\ UNCHANGED <<notJob, config, db, configDb, locks, calls>>

\* The program ends and is started again, with the same or another config:
\* the stores persist, the job instance (locks, calls) is new.
NewRun(cfg) ==
    /\ \A c \in Calls : Settled(c)
    /\ \E c \in Calls : calls[c].pc # "idle"
    /\ config' = cfg
    /\ locks' = [l \in LockIds |-> FreeLock]
    /\ calls' = [c \in Calls |-> IdleCall]
    /\ UNCHANGED <<notJob, files, db, configDb>>

NextJob ==
    \/ \E c \in Calls, p \in Paths : Process(c, p)
    \/ \E c \in Calls : Enter(c)
    \/ \E c \in Calls : LookupHit(c)
    \/ \E c \in Calls : LookupMiss(c)
    \/ \E c \in Calls : ProcessFile(c)
    \/ \E c \in Calls : ProcessFileFails(c)
    \/ \E c \in Calls : Store(c)
    \/ \E c \in Calls, d \in BOOLEAN, g \in BOOLEAN : StoreFails(c, d, g)
    \/ \E p \in Rewritable, content \in Contents : ModifyFile(p, content)
    \/ \E cfg \in ConfigValues : NewRun(cfg)

SpecJob == InitJob /\ [][NextJob]_vars

\* ---- properties of BaseFileInfoJob ----

Started == {c \in Calls : calls[c].pc # "idle"}
Done == {c \in Calls : calls[c].pc = "done"}
Failed == {c \in Calls : calls[c].pc = "failed"}
OnKey(k) == {c \in Started : calls[c].key = k}

C4_CacheRoundTrip ==
    \A c \in Done : \A b \in Done \ {c} : calls[b].key = calls[c].key =>
        /\ calls[b].result = calls[c].result
        /\ calls[b].ran + calls[c].ran <= 1

\* C4 as amended: two calls of one key that returned in the same run
\* returned equal results; the result is the entry of the store, stored with
\* a config that serialises as the current one; and when the result is
\* truthy at most one of the two invoked processFile.
C4_CacheRoundTripTruthy ==
    \A c \in Done :
      /\ db[calls[c].key] = calls[c].result
      /\ JSONstringify(configDb[calls[c].key]) = JSONstringify(config)
      /\ \A b \in Done \ {c} : calls[b].key = calls[c].key =>
           /\ calls[b].result = calls[c].result
           /\ Truthy(calls[c].result) => calls[b].ran + calls[c].ran <= 1

\* A first call computed and returned; a second call, issued after the first
\* had released the lock, returned the same result without computing.
C4_Witness ==
    \E c \in Done, b \in Done :
      /\ b < c /\ calls[b].key = calls[c].key
      /\ calls[b].ran = 1 /\ calls[c].ran = 0 /\ ~calls[c].waited
      /\ calls[c].result = calls[b].result

\* C5 as stated: config-change invalidation. When the entry of a key was
\* stored under a config that differs from the job's config, the lookup of
\* a process call for that key goes on to the compute step.
C5_ConfigChangeInvalidates ==
    [][\A c \in Calls :
         (/\ calls[c].pc = "locked" /\ calls'[c].pc # "locked"
          /\ configDb[calls[c].key] # UndefinedConfig
          /\ configDb[calls[c].key] # config)
           => calls'[c].pc = "compute"]_vars

\* C6 as stated: the cache key is the content hash. Calls for paths with
\* identical content use one key, and a call served from the store receives
\* the result of the content its path has now.
C6_KeyIsContentHash ==
    /\ \A c \in Started, b \in Started :
         files[calls[c].path] = files[calls[b].path] => calls[c].key = calls[b].key
    /\ \A c \in Done : calls[c].ran = 0 => calls[c].result.content = files[calls[c].path]

\* C7 as stated: locks are per key. A call that waits for its lock waits for
\* a call of the same key.
C7_LocksPerKey ==
    \A c \in Calls : calls[c].pc = "waiting" /\ ~Holds(c) =>
      \A b \in Calls : Holds(b) /\ getLock(calls[b].key) = getLock(calls[c].key)
                         => calls[b].key = calls[c].key

\* The calls of the run that were rejected by processFile: they invoked it
\* and hold no result.
FailedInCompute == {c \in Failed : calls[c].ran > 0 /\ calls[c].result = Undefined}

\* C32: when processFile rejects inside process(p), process rejects, the
\* step writes neither store and releases the lock; the lock is never left
\* with a settled call, so the next caller gets it; and a call of the same
\* key that looks the entry up after the rejection, before any call of the
\* key has computed a result, goes on to processFile.
C32_ComputeFailure ==
    /\ [][\A c \in Calls :
            (calls[c].pc = "compute" /\ calls'[c].pc = "failed") =>
              /\ db' = db /\ configDb' = configDb
              /\ locks'[getLock(calls[c].key)].holder # c
              /\ locks' = Released(c)]_vars
    /\ [](\A c \in Calls : Holds(c) => ~Settled(c))
    /\ [][\A c \in Calls :
            (/\ calls[c].pc = "locked" /\ calls'[c].pc # "locked"
             /\ \E b \in FailedInCompute : calls[b].key = calls[c].key
             /\ \A b \in OnKey(calls[c].key) : calls[b].ran > 0 => b \in FailedInCompute)
              => calls'[c].pc = "compute"]_vars

\* processFile rejected in one call; a later call of the same key was not
\* blocked, invoked processFile again and returned its result.
C32_Witness ==
    \E b \in FailedInCompute, c \in Done :
      /\ b < c /\ calls[c].key = calls[b].key /\ calls[c].ran = 1
      /\ db[calls[c].key] = calls[c].result
      /\ \A l \in LockIds : locks[l] = FreeLock

\* C33 as stated: cache consistency. Whenever the config stored for a key
\* is the job's config, the result stored for that key was computed under
\* that config; and a call that returned holds a result computed under the
\* job's config.
C33_CacheConsistency ==
    /\ \A k \in Keys :
         (configDb[k] = config /\ db[k] # Undefined) => db[k].cfg = config
    /\ \A c \in Done : calls[c].result.cfg = config

(***************************************************************************)
(* MediaComparator.mergeAndDeduplicate                                     *)
(***************************************************************************)

\* The file paths clusters are made of, and the longest cluster list.
Elems == {"A", "B", "C", "D"}
MaxClusters == 3

ClusterLists == UNION {[1..n -> SUBSET Elems \ {{}}] : n \in 0..MaxClusters}

Range(seq) == {seq[i] : i \in DOMAIN seq}

Min(a, b) == IF a < b THEN a ELSE b
Max(a, b) == IF a > b THEN a ELSE b

\* Array.prototype.indexOf: the first position (from 0) holding x, else -1.
indexOf(seq, x) ==
    IF \E i \in 1..Len(seq) : seq[i] = x
    THEN (CHOOSE i \in 1..Len(seq) : seq[i] = x /\ \A j \in 1..(i - 1) : seq[j] # x) - 1
    ELSE -1

\* Array.prototype.splice(start, 1): a negative start counts from the end.
splice(seq, start) ==
    LET n == Len(seq)
        from == IF start < 0 THEN Max(n + start, 0) ELSE Min(start, n)
    IN [i \in 1..(IF from < n THEN n - 1 ELSE n) |-> IF i <= from THEN seq[i] ELSE seq[i + 1]]

\* The loop over relatedClusters, lines 155-160, on the array merged: each
\* related Set object is looked up and spliced out.
RECURSIVE spliceAll(_, _)
spliceAll(seq, related) ==
    IF related = {} THEN seq
    ELSE LET r == CHOOSE x \in related : TRUE
         IN spliceAll(splice(seq, indexOf(seq, r)), related \ {r})

\* The body of the loop without lines 162-164: the index is not updated
\* for the members of the merged cluster.
mergeClusterNoIndex(st, id) ==
    LET cluster == st.heap[id]
        relatedClusters == {st.map[e] : e \in cluster} \ {0}
    IN IF relatedClusters = {}
       THEN [merged |-> Append(st.merged, id),
             map |-> [e \in DOMAIN st.map |-> IF e \in cluster THEN id ELSE st.map[e]],
             heap |-> st.heap]
       ELSE LET mergedCluster == cluster \cup UNION {st.heap[r] : r \in relatedClusters}
                new == Len(st.heap) + 1
            IN [merged |-> Append(spliceAll(st.merged, relatedClusters), new),
                map |-> st.map,
                heap |-> Append(st.heap, mergedCluster)]

\* One iteration of the loop of mergeAndDeduplicate, lines 139-166, for the
\* Set object id. Set objects are numbered; heap gives each its members,
\* merged is the array of Set objects and map is elementToClusterMap (0: no
\* entry).
mergeCluster(st, id) ==
    LET cluster == st.heap[id]
        relatedClusters == {st.map[e] : e \in cluster} \ {0}
    IN IF relatedClusters = {}
       THEN [merged |-> Append(st.merged, id),
             map |-> [e \in DOMAIN st.map |-> IF e \in cluster THEN id ELSE st.map[e]],
             heap |-> st.heap]
       ELSE LET mergedCluster == cluster \cup UNION {st.heap[r] : r \in relatedClusters}
                new == Len(st.heap) + 1
            IN [merged |-> Append(spliceAll(st.merged, relatedClusters), new),
                map |-> [e \in DOMAIN st.map |-> IF e \in mergedCluster THEN new ELSE st.map[e]],
                heap |-> Append(st.heap, mergedCluster)]

RECURSIVE mergeLoop(_, _, _)
mergeLoop(st, i, n) ==
    IF i > n THEN st ELSE mergeLoop(mergeCluster(st, i), i + 1, n)

\* results.flat() returned as it is, without the overlap merge.
mergeAndDeduplicateNone(clusters) == clusters

\* mergeAndDeduplicate(clusters): the members of the Set objects left in
\* merged, in the order of the array.
mergeAndDeduplicate(clusters) ==
    LET st == mergeLoop([merged |-> <<>>, map |-> [e \in UNION Range(clusters) |-> 0], heap |-> clusters],
                        1, Len(clusters))
    IN [i \in 1..Len(st.merged) |-> st.heap[st.merged[i]]]

Perms(n) == {f \in [1..n -> 1..n] : \A i, j \in 1..n : f[i] = f[j] => i = j}

InitMerge ==
    /\ JobIdle
    /\ DedupIdle
    /\ KernelIdle
    /\ MainIdle
    /\ WorkerIdle
    /\ VideoIdle
    /\ DiscoverIdle
    /\ pcM = "input"
    /\ clustersIn \in ClusterLists
    /\ mergedOut = <<>>
    /\ secondOut = <<>>

\* parallelDBSCAN, line 132: the clusters of all batches are merged.
Merge ==
    /\ pcM = "input"
    /\ mergedOut' = mergeAndDeduplicate(clustersIn)
    /\ pcM' = "merged"
    /\ UNCHANGED <<clustersIn, secondOut, notMerge>>

\* The merged list is merged again.
Remerge ==
    /\ pcM = "merged"
    /\ secondOut' = mergeAndDeduplicate(mergedOut)
    /\ pcM' = "remerged"
    /\ UNCHANGED <<clustersIn, mergedOut, notMerge>>

\* The same clusters arrive in another order (Promise.all keeps the order of
\* the batches, the batches depend on the order of the files) and are merged.
MergePermuted(f) ==
    /\ pcM = "merged"
    /\ \E i \in DOMAIN f : f[i] # i
    /\ clustersIn' = [i \in 1..Len(clustersIn) |-> clustersIn[f[i]]]
    /\ secondOut' = mergeAndDeduplicate(clustersIn')
    /\ pcM' = "permuted"
    /\ UNCHANGED <<mergedOut, notMerge>>

NextMerge ==
    \/ Merge
    \/ Remerge
    \/ pcM = "merged" /\ \E f \in Perms(Len(clustersIn)) : MergePermuted(f)

SpecMerge == InitMerge /\ [][NextMerge]_vars

\* ---- properties of mergeAndDeduplicate ----

Disjoint(seq) == \A i, j \in DOMAIN seq : i # j => seq[i] \cap seq[j] = {}

\* C8: the clusters returned by mergeAndDeduplicate are pairwise disjoint,
\* their union is the union of the input clusters, and every input cluster
\* lies inside one output cluster (so that input clusters that share an
\* element, directly or through a chain, end in the same output cluster).
C8_MergeIsPartition ==
    pcM = "merged" =>
      /\ Disjoint(mergedOut)
      /\ UNION Range(mergedOut) = UNION Range(clustersIn)
      /\ \A i \in DOMAIN clustersIn : \E j \in DOMAIN mergedOut : clustersIn[i] \subseteq mergedOut[j]
      /\ \A i, j \in DOMAIN clustersIn : clustersIn[i] \cap clustersIn[j] # {} =>
           \E k \in DOMAIN mergedOut : clustersIn[i] \cup clustersIn[j] \subseteq mergedOut[k]

\* Two clusters that overlap only through a third are merged into one.
C8_Witness ==
    /\ pcM = "merged"
    /\ clustersIn = <<{"A", "B"}, {"C", "D"}, {"B", "C"}>>
    /\ mergedOut = <<{"A", "B", "C", "D"}>>

\* C9: merging the output of mergeAndDeduplicate again yields the same set
\* of clusters.
C9_MergeIdempotent ==
    pcM = "remerged" => Range(secondOut) = Range(mergedOut)

\* An input with overlapping clusters has been merged twice.
C9_Witness ==
    /\ pcM = "remerged"
    /\ Len(mergedOut) = 2
    /\ Len(clustersIn) = 3
    /\ ~Disjoint(clustersIn)

\* C10: every permutation of the cluster list yields the same set of
\* clusters.
C10_MergeOrderIndependent ==
    pcM = "permuted" => Range(secondOut) = Range(mergedOut)

\* A reordered input gave the same clusters in another order of the array.
C10_Witness ==
    /\ pcM = "permuted"
    /\ Range(secondOut) = Range(mergedOut)
    /\ secondOut # mergedOut
    /\ ~Disjoint(clustersIn)

(***************************************************************************)
(* MediaComparator: the similarity kernel                                  *)
(***************************************************************************)

\* A hash is the sequence of the 64-bit words of its buffer, as
\* BigUint64Array shows it; the words used here are below 2^31. Similarities,
\* distances and thresholds are exact rationals written as multiples of
\* 1/Scale: 64 bits per word, and up to four frames per sequence.
BytesPerWord == 8
BitsPerByte == 8
Scale == 12 * BytesPerWord * BitsPerByte

\* Infinity, which fills the row of the DTW table.
Infinity == 1000000000

\* NaN, the quotient 0 / 0 of line 503. Math.max gives NaN when an argument
\* is NaN, and every comparison with NaN is false.
NaN == 2 * Infinity
Mathmax(a, b) == IF a = NaN \/ b = NaN THEN NaN ELSE IF a >= b THEN a ELSE b
GreaterOrEqual(a, b) == a # NaN /\ b # NaN /\ a >= b

RECURSIVE BitAnd(_, _)
BitAnd(a, b) ==
    IF a = 0 \/ b = 0 THEN 0
    ELSE (a % 2) * (b % 2) + 2 * BitAnd(a \div 2, b \div 2)

RECURSIVE BitXor(_, _)
BitXor(a, b) ==
    IF a = 0 THEN b
    ELSE IF b = 0 THEN a
    ELSE ((a + b) % 2) + 2 * BitXor(a \div 2, b \div 2)

\* The low 31 bits of the masks 0x5555..., 0x3333... and 0x0f0f...; the
\* operands are below 2^31, so the higher bits of the masks select nothing.
Mask55 == 1431655765
Mask33 == 858993459
Mask0f == 252645135

\* popcount64 on BigInt. After the third line every byte of n holds the
\* number of bits of that byte. The product with 0x0101010101010101 is not
\* reduced modulo 2^64 (BigInt has no width), so the shift by 56 leaves
\* n + (n >> 8) + (n >> 16) + (n >> 24) for an n below 2^32 (the byte sums
\* stay below 256, there is no carry).
popcountPairs(n) == n - BitAnd(n \div 2, Mask55)
popcountNibbles(n) == BitAnd(n, Mask33) + BitAnd(n \div 4, Mask33)
popcountBytes(n) == BitAnd(n + (n \div 16), Mask0f)
popcountSum(n) == n + (n \div 256) + (n \div 65536) + (n \div 16777216)

popcount64(n) == popcountSum(popcountBytes(popcountNibbles(popcountPairs(n))))

\* hammingDistance for buffers of whole words, hash1 not longer than hash2
\* (the loop runs over the words of hash1).
RECURSIVE hammingLoop(_, _, _)
hammingLoop(hash1, hash2, i) ==
    IF i > Len(hash1) THEN 0
    ELSE popcount64(BitXor(hash1[i], hash2[i])) + hammingLoop(hash1, hash2, i + 1)

hammingDistance(hash1, hash2) == hammingLoop(hash1, hash2, 1)

calculateImageSimilarity(frame1, frame2) ==
    LET distance == hammingDistance(frame1.hash, frame2.hash)
        maxDistance == Len(frame1.hash) * BytesPerWord * BitsPerByte
    IN Scale - ((distance * Scale) \div maxDistance)

\* The loop of calculateImageVideoSimilarity from frame i on; similarity[i]
\* is the similarity of the image and frame i.
RECURSIVE imageVideoLoop(_, _, _)
imageVideoLoop(similarity, i, bestSimilarity) ==
    IF i > Len(similarity) THEN bestSimilarity
    ELSE IF similarity[i] > bestSimilarity
         THEN IF similarity[i] >= similarityConfig.imageVideoSimilarityThreshold
              THEN similarity[i]
              ELSE imageVideoLoop(similarity, i + 1, similarity[i])
         ELSE imageVideoLoop(similarity, i + 1, bestSimilarity)

calculateImageVideoSimilarity(image, video) ==
    IF Len(image.frames) = 0 \/ Len(video.frames) = 0 THEN 0
    ELSE imageVideoLoop([i \in DOMAIN video.frames |->
                            calculateImageSimilarity(image.frames[1], video.frames[i])],
                        1, 0)

getFramesInTimeRange(media, startTime, endTime) ==
    SelectSeq(media.frames,
              LAMBDA frame : frame.timestamp >= startTime /\ frame.timestamp <= endTime)

AddNum(a, b) == IF a = Infinity \/ b = Infinity THEN Infinity ELSE a + b

\* The row update with prev read after cell j was written: no diagonal step.
RECURSIVE dtwRowNoTemp(_, _, _, _, _)
dtwRowNoTemp(row, prev, frame, seq2, j) ==
    IF j > Len(seq2) THEN row
    ELSE LET cost == Scale - calculateImageSimilarity(frame, seq2[j])
             best == Min(prev, Min(row[j + 1], row[j]))
             cell == AddNum(cost, best)
         IN dtwRowNoTemp([row EXCEPT ![j + 1] = cell], cell, frame, seq2, j + 1)

\* One row of the table: cells 1..j-1 of row are new, the others old; prev
\* is the old value of cell j-1. Cell j of the code is row[j + 1].
RECURSIVE dtwRow(_, _, _, _, _)
dtwRow(row, prev, frame, seq2, j) ==
    IF j > Len(seq2) THEN row
    ELSE LET temp == row[j + 1]
             cost == Scale - calculateImageSimilarity(frame, seq2[j])
             best == Min(prev, Min(row[j + 1], row[j]))
         IN dtwRow([row EXCEPT ![j + 1] = AddNum(cost, best)], temp, frame, seq2, j + 1)

RECURSIVE dtwRows(_, _, _, _)
dtwRows(row, seq1, seq2, i) ==
    IF i > Len(seq1) THEN row
    ELSE dtwRows(dtwRow([row EXCEPT ![1] = Infinity], row[1], seq1[i], seq2, 1),
                 seq1, seq2, i + 1)

\* Line 503 for the last cell dtwn of the row; an infinite cost gives
\* -Infinity, and two empty sequences give 1 - 0 / 0.
dtwSimilarity(dtwn, m, n) ==
    IF dtwn = Infinity THEN -Infinity
    ELSE IF Max(m, n) = 0 THEN NaN
    ELSE Scale - (dtwn \div Max(m, n))

\* Lines 488-501: the array dtw when the loops have ended.
dtwTable(seq1, seq2) ==
    dtwRows([j \in 1..(Len(seq2) + 1) |-> IF j = 1 THEN 0 ELSE Infinity],
            seq1, seq2, 1)

calculateSequenceSimilarityDTW(seq1, seq2) ==
    dtwSimilarity(dtwTable(seq1, seq2)[Len(seq2) + 1], Len(seq1), Len(seq2))

\* Lines 449-461: the similarity of the window that starts at startTime.
windowSimilarity(shorterMedia, longerMedia, startTime) ==
    calculateSequenceSimilarityDTW(
        getFramesInTimeRange(longerMedia, startTime, startTime + shorterMedia.duration),
        shorterMedia.frames)

RECURSIVE videoLoop(_, _, _, _)

\* Lines 465-467 and the step of the loop: bestSimilarity includes the
\* window at startTime.
videoNext(shorterMedia, longerMedia, startTime, bestSimilarity) ==
    IF GreaterOrEqual(bestSimilarity, similarityConfig.videoSimilarityThreshold)
    THEN bestSimilarity
    ELSE videoLoop(shorterMedia, longerMedia, startTime + similarityConfig.stepSize,
                   bestSimilarity)

\* The loop of calculateVideoSimilarity from startTime on.
videoLoop(shorterMedia, longerMedia, startTime, bestSimilarity) ==
    IF startTime > longerMedia.duration - shorterMedia.duration THEN bestSimilarity
    ELSE videoNext(shorterMedia, longerMedia, startTime,
                   Mathmax(bestSimilarity,
                           windowSimilarity(shorterMedia, longerMedia, startTime)))

calculateVideoSimilarity(media1, media2) ==
    videoLoop(IF media1.duration <= media2.duration THEN media1 ELSE media2,
              IF media1.duration <= media2.duration THEN media2 ELSE media1,
              0, 0)

\* For two images line 383 passes frames[0] of each; calculateSimilarityThrows
\* tells when one of them is undefined.
calculateSimilarity(media1, media2) ==
    LET isImage1 == media1.duration = 0
        isImage2 == media2.duration = 0
    IN IF isImage1 /\ isImage2
       THEN calculateImageSimilarity(media1.frames[1], media2.frames[1])
       ELSE IF isImage1 \/ isImage2
       THEN calculateImageVideoSimilarity(IF isImage1 THEN media1 ELSE media2,
                                          IF isImage1 THEN media2 ELSE media1)
       ELSE calculateVideoSimilarity(media1, media2)

\* Lines 383 and 398: frames[0] of an image without frames is undefined, and
\* reading its hash throws a TypeError.
calculateSimilarityThrows(media1, media2) ==
    /\ media1.duration = 0
    /\ media2.duration = 0
    /\ (Len(media1.frames) = 0 \/ Len(media2.frames) = 0)

getAdaptiveThreshold(media1, media2) ==
    LET isImage1 == media1.duration = 0
        isImage2 == media2.duration = 0
    IN IF isImage1 /\ isImage2 THEN similarityConfig.imageSimilarityThreshold
       ELSE IF isImage1 \/ isImage2 THEN similarityConfig.imageVideoSimilarityThreshold
       ELSE similarityConfig.videoSimilarityThreshold

minThreshold ==
    Min(similarityConfig.imageSimilarityThreshold,
        Min(similarityConfig.imageVideoSimilarityThreshold,
            similarityConfig.videoSimilarityThreshold))

(***************************************************************************)
(* MediaComparator: scoring                                                *)
(***************************************************************************)

\* Scores are written in thousandths. Math.log is tabulated, rounded to the
\* thousandth, for the durations and sizes of FileInfos below; Math.sqrt is
\* exact for the pixel counts used, which are squares.
ScoreUnit == 1000

Mathlog(x) ==
    CASE x = 1 -> 0
      [] x = 2 -> 693
      [] x = 3 -> 1099
      [] x = 1000 -> 6908
      [] x = 2000 -> 7601

Mathsqrt(x) == ScoreUnit * (CHOOSE r \in 0..x : r * r <= x /\ (r + 1) * (r + 1) > x)

getQuality(info) == info.metadata.width * info.metadata.height

calculateEntryScore(info) ==
      (IF info.media.duration > 0 THEN 10000 * ScoreUnit ELSE 0)
    + Mathlog(info.media.duration + 1) * 100
    + (IF info.metadata.imageDate THEN 2000 * ScoreUnit ELSE 0)
    + (IF info.metadata.gpsLatitude /\ info.metadata.gpsLongitude THEN 300 * ScoreUnit ELSE 0)
    + (IF info.metadata.cameraModel THEN 200 * ScoreUnit ELSE 0)
    + (IF info.metadata.width # 0 /\ info.metadata.height # 0
       THEN Mathsqrt(info.metadata.width * info.metadata.height) ELSE 0)
    + Mathlog(info.fileStats.size) * 5

(***************************************************************************)
(* VPTree (spec section 4.4) and the DBSCAN engine                         *)
(***************************************************************************)

\* Lines 88 and 285: 1 - similarity, with nothing between the subtraction
\* and the tree.
OneMinus(similarity) == IF similarity = NaN THEN NaN ELSE Scale - similarity

\* The metric deduplicateFiles and createVPTreeByRoot give the tree.
metric(a, b) == OneMinus(calculateSimilarity(fileInfo[a].media, fileInfo[b].media))

Nil == [kind |-> "nil"]

\* The median of a non-empty sequence of distances: the element at position
\* floor(k / 2), from 0, of the sorted sequence.
median(dist) ==
    LET k == Len(dist)
        below(v) == Cardinality({i \in 1..k : dist[i] < v})
        upto(v) == Cardinality({i \in 1..k : dist[i] <= v})
    IN CHOOSE v \in Range(dist) : below(v) <= k \div 2 /\ k \div 2 < upto(v)

\* The elements of seq whose flag is set, from position i on.
RECURSIVE selectWhere(_, _, _)
selectWhere(seq, flags, i) ==
    IF i > Len(seq) THEN <<>>
    ELSE (IF flags[i] THEN <<seq[i]>> ELSE <<>>) \o selectWhere(seq, flags, i + 1)

RECURSIVE VPTreebuild(_)

\* An inner node: dist[i] is the distance of rest[i] from the vantage point;
\* strictly nearer points go left, the others right.
VPTreenode(vp, rest, dist, threshold) ==
    [kind |-> "node", vantagePoint |-> vp, threshold |-> threshold,
     left |-> VPTreebuild(selectWhere(rest, [i \in DOMAIN dist |-> dist[i] < threshold], 1)),
     right |-> VPTreebuild(selectWhere(rest, [i \in DOMAIN dist |-> dist[i] >= threshold], 1))]

\* The threshold of a node is the median of the distances.
VPTreesplit(vp, rest, dist) == VPTreenode(vp, rest, dist, median(dist))

\* VPTree.build: the first point is the vantage point; a single point makes
\* a leaf, which has no threshold.
VPTreebuild(points) ==
    IF points = <<>> THEN Nil
    ELSE IF Tail(points) = <<>> THEN [kind |-> "leaf", vantagePoint |-> Head(points)]
    ELSE VPTreesplit(Head(points), Tail(points),
                     [i \in 1..(Len(points) - 1) |-> metric(Head(points), points[i + 1])])

RECURSIVE search(_, _, _)

\* The visit of a node whose vantage point is at distance delta of the query.
searchNode(node, query, maxDistance, delta) ==
    (IF delta <= maxDistance
     THEN <<[point |-> node.vantagePoint, distance |-> delta]>> ELSE <<>>)
    \o (IF node.kind = "node" /\ delta - maxDistance < node.threshold
        THEN search(node.left, query, maxDistance) ELSE <<>>)
    \o (IF node.kind = "node" /\ delta + maxDistance >= node.threshold
        THEN search(node.right, query, maxDistance) ELSE <<>>)

\* VPTree.search(query, {maxDistance, sort: false}): the points emitted, with
\* their distances, in the order of the descent.
search(node, query, maxDistance) ==
    IF node.kind = "nil" THEN <<>>
    ELSE searchNode(node, query, maxDistance, metric(query, node.vantagePoint))

\* The tree a worker works on is the tree of the root it was sent.
createVPTreeByRoot(root) == root

\* result.map((n) => n.point)
pointsOf(result) == [i \in DOMAIN result |-> result[i].point]

\* The search result without the filter of lines 231-238.
getValidNeighborsUnfiltered(point, tree, eps) == pointsOf(search(tree, point, eps))

getValidNeighbors(point, tree, eps) ==
    pointsOf(SelectSeq(search(tree, point, eps),
                       LAMBDA neighbor :
                           \/ neighbor.point = point
                           \/ Scale - neighbor.distance
                                >= getAdaptiveThreshold(fileInfo[point].media,
                                                        fileInfo[neighbor.point].media)))

minPts == 2

\* Lines 207-213: the unvisited neighbours a core point pushes.
pushNeighbors(currentNeighbors, visited) ==
    IF Len(currentNeighbors) >= minPts
    THEN SelectSeq(currentNeighbors, LAMBDA neighbor : neighbor \notin visited)
    ELSE <<>>

\* The while loop of workerDBSCAN, lines 194-214; the stack is popped at
\* its end.
RECURSIVE expandCluster(_, _, _, _, _)
expandCluster(stack, cluster, visited, tree, eps) ==
    IF stack = <<>> THEN [cluster |-> cluster, visited |-> visited]
    ELSE LET current == stack[Len(stack)]
             rest == SubSeq(stack, 1, Len(stack) - 1)
         IN IF current \in visited
            THEN expandCluster(rest, cluster, visited, tree, eps)
            ELSE expandCluster(
                     rest \o pushNeighbors(getValidNeighbors(current, tree, eps),
                                           visited \cup {current}),
                     cluster \cup {current}, visited \cup {current}, tree, eps)

RECURSIVE scanChunk(_, _, _, _, _, _)

\* Line 216 and the next turn of the loop, for the grown cluster.
scanGrown(chunk, i, clusters, tree, eps, grown) ==
    scanChunk(chunk, i + 1, Append(clusters, grown.cluster), grown.visited, tree, eps)

\* Lines 186-216 for the unvisited point chunk[i] and its valid neighbours.
scanPoint(chunk, i, clusters, visited, tree, eps, neighbors) ==
    IF Len(neighbors) < minPts
    THEN scanChunk(chunk, i + 1, Append(clusters, {chunk[i]}), visited \cup {chunk[i]},
                   tree, eps)
    ELSE scanGrown(chunk, i, clusters, tree, eps,
                   expandCluster(neighbors, {chunk[i]}, visited \cup {chunk[i]}, tree, eps))

\* The for loop of workerDBSCAN, lines 180-217, from point i of the chunk on.
scanChunk(chunk, i, clusters, visited, tree, eps) ==
    IF i > Len(chunk) THEN clusters
    ELSE IF chunk[i] \in visited
         THEN scanChunk(chunk, i + 1, clusters, visited, tree, eps)
         ELSE scanPoint(chunk, i, clusters, visited, tree, eps,
                        getValidNeighbors(chunk[i], tree, eps))

workerDBSCAN(chunk, tree) ==
    scanChunk(chunk, 1, <<>>, {}, tree, Scale - minThreshold)

\* The worker pool's performDBSCAN: a worker rebuilds the tree from the
\* root and runs workerDBSCAN on the batch.
performDBSCAN(root, batch) == workerDBSCAN(batch, createVPTreeByRoot(root))

\* The batch size of parallelDBSCAN (2048 in the program).
BatchSize == 2

numBatches(fileList) == (Len(fileList) + BatchSize - 1) \div BatchSize

\* files.slice(i, i + batchSize) for the b-th batch.
batchOf(fileList, b) ==
    SubSeq(fileList, (b - 1) * BatchSize + 1, Min(b * BatchSize, Len(fileList)))

\* results.flat()
RECURSIVE flat(_)
flat(seqs) == IF seqs = <<>> THEN <<>> ELSE Head(seqs) \o flat(Tail(seqs))

parallelDBSCAN(fileList, root) ==
    mergeAndDeduplicate(
        flat([b \in 1..numBatches(fileList) |-> performDBSCAN(root, batchOf(fileList, b))]))

(***************************************************************************)
(* MediaComparator: representative selection and deduplicateFiles          *)
(***************************************************************************)

\* The sort of scoreEntries with the order reversed: lowest score first.
scoreEntriesAscending(entries) ==
    LET score(i) == calculateEntryScore(fileInfo[entries[i]])
        rank(i) == 1 + Cardinality({j \in DOMAIN entries : score(j) < score(i)})
                     + Cardinality({j \in 1..(i - 1) : score(j) = score(i)})
    IN [k \in DOMAIN entries |-> entries[CHOOSE i \in DOMAIN entries : rank(i) = k]]

\* scoreEntries: the entries sorted by score, highest first; Array.sort is
\* stable, entries of equal score keep their order.
scoreEntries(entries) ==
    LET score(i) == calculateEntryScore(fileInfo[entries[i]])
        rank(i) == 1 + Cardinality({j \in DOMAIN entries : score(j) > score(i)})
                     + Cardinality({j \in 1..(i - 1) : score(j) = score(i)})
    IN [k \in DOMAIN entries |-> entries[CHOOSE i \in DOMAIN entries : rank(i) = k]]

\* Set.add on a Set kept in insertion order.
SetAdd(seq, x) == IF x \in Range(seq) THEN seq ELSE Append(seq, x)

\* The arrays a Set of paths can be iterated as.
RECURSIVE Orderings(_)
Orderings(set) ==
    IF set = {} THEN {<<>>}
    ELSE UNION {{<<x>> \o seq : seq \in Orderings(set \ {x})} : x \in set}

\* Array.from(cluster) inside a recursive call. The model keeps clusters as
\* sets; one order is taken here, and only uniqueFiles, which does not
\* depend on it, is used of the recursive call's result.
ArrayFrom(cluster) == CHOOSE seq \in Orderings(cluster) : TRUE

RECURSIVE deduplicateFiles(_)

\* Lines 330-338: the unique files among the potential captures join the
\* best entry.
withCaptures(bestEntry, potentialCaptures) ==
    IF Len(potentialCaptures) > 0
    THEN <<bestEntry>> \o deduplicateFiles(potentialCaptures).uniqueFiles
    ELSE <<bestEntry>>

\* handleMultiFrameBest with every still of the cluster as a potential
\* capture.
handleMultiFrameBestAnyStill(sortedEntries) ==
    withCaptures(
        sortedEntries[1],
        SelectSeq(sortedEntries, LAMBDA entry : fileInfo[entry].media.duration = 0))

\* potentialCaptures with every entry but the best one.
potentialCapturesAllOthers(sortedEntries) == Tail(sortedEntries)

\* Lines 318-328.
potentialCaptures(sortedEntries) ==
    SelectSeq(sortedEntries,
              LAMBDA entry :
                  /\ fileInfo[entry].media.duration = 0
                  /\ getQuality(fileInfo[entry]) >= getQuality(fileInfo[sortedEntries[1]])
                  /\ (~fileInfo[sortedEntries[1]].metadata.imageDate
                        \/ fileInfo[entry].metadata.imageDate))

handleMultiFrameBest(sortedEntries) ==
    withCaptures(sortedEntries[1], potentialCaptures(sortedEntries))

\* Lines 296-303 for the sorted entries.
selectBest(sortedEntries) ==
    IF fileInfo[sortedEntries[1]].media.duration = 0
    THEN <<sortedEntries[1]>>
    ELSE handleMultiFrameBest(sortedEntries)

selectRepresentatives(cluster) ==
    IF Len(cluster) <= 1 THEN cluster ELSE selectBest(scoreEntries(cluster))

\* Lines 263-272 with an empty duplicates set.
duplicateSetLosing(clusterArray, representatives) ==
    [bestFile |-> representatives[1],
     representatives |-> Range(representatives),
     duplicates |-> {}]

\* Lines 263-272: the duplicate set of a cluster and its representatives.
duplicateSetOf(clusterArray, representatives) ==
    [bestFile |-> representatives[1],
     representatives |-> Range(representatives),
     duplicates |-> {f \in Range(clusterArray) : f \notin Range(representatives)}]

\* The body of the loop of processResults, lines 255-273, for one cluster
\* iterated as clusterArray.
processCluster(acc, clusterArray) ==
    IF Len(clusterArray) = 1
    THEN [acc EXCEPT !.uniqueFiles = SetAdd(@, clusterArray[1])]
    ELSE [acc EXCEPT !.duplicateSets =
              Append(@, duplicateSetOf(clusterArray, selectRepresentatives(clusterArray)))]

RECURSIVE processLoop(_, _)
processLoop(acc, clusters) ==
    IF clusters = <<>> THEN acc
    ELSE processLoop(processCluster(acc, ArrayFrom(Head(clusters))), Tail(clusters))

processResults(clusters) ==
    processLoop([uniqueFiles |-> <<>>, duplicateSets |-> <<>>], clusters)

deduplicateFiles(fileList) ==
    processResults(parallelDBSCAN(fileList, VPTreebuild(fileList)))

\* The nesting of the calls: nestingDepth(fileList) is the number of
\* deduplicateFiles calls that are open at once, below deduplicateFiles(fileList),
\* at the deepest point of the recursion of line 331.
RECURSIVE nestingDepth(_)

\* The call of line 331 for the sorted entries of a cluster, if it is made.
callsBelow(cluster, captures, made) ==
    IF made
    THEN {[cluster |-> Range(cluster), files |-> Range(captures),
           depth |-> 1 + nestingDepth(captures)]}
    ELSE {}

callsOfSorted(sortedEntries) ==
    callsBelow(sortedEntries, potentialCaptures(sortedEntries),
               /\ fileInfo[sortedEntries[1]].media.duration # 0
               /\ Len(potentialCaptures(sortedEntries)) > 0)

\* The recursive calls selectRepresentatives(cluster) makes: none for a
\* cluster of one file (line 293) or with a still as best entry (line 299).
callsOf(cluster) ==
    IF Len(cluster) <= 1 THEN {} ELSE callsOfSorted(scoreEntries(cluster))

RECURSIVE deepest(_)
deepest(callSet) ==
    IF callSet = {} THEN 0
    ELSE LET call == CHOOSE c \in callSet : TRUE
         IN Max(call.depth, deepest(callSet \ {call}))

nestingDepth(fileList) ==
    deepest(UNION {callsOf(ArrayFrom(c)) :
                      c \in Range(parallelDBSCAN(fileList, VPTreebuild(fileList)))})

(***************************************************************************)
(* SpecDedup: one deduplicateFiles call                                    *)
(***************************************************************************)

\* The longest input list, and the paths it is made of.
MaxFiles == 3
FileNames == <<"A", "B", "C", "D", "E">>

Frame(word, timestamp) == [hash |-> <<word>>, timestamp |-> timestamp]

\* A still image: duration 0, one frame.
Image(word, side, imageDate, located, size) ==
    [media |-> [duration |-> 0, frames |-> <<Frame(word, 0)>>],
     metadata |-> [width |-> side, height |-> side, imageDate |-> imageDate,
                   gpsLatitude |-> located, gpsLongitude |-> located,
                   cameraModel |-> located],
     fileStats |-> [size |-> size]]

\* A video with one frame per second from 0 on.
Video(duration, words, side, imageDate, size) ==
    [media |-> [duration |-> duration,
                frames |-> [i \in DOMAIN words |-> Frame(words[i], i - 1)]],
     metadata |-> [width |-> side, height |-> side, imageDate |-> imageDate,
                   gpsLatitude |-> FALSE, gpsLongitude |-> FALSE,
                   cameraModel |-> FALSE],
     fileStats |-> [size |-> size]]

\* The FileInfos the selector can give: stills whose hashes differ in one
\* or two low bits or in a bit of the second byte, a video showing three of
\* them, and a clip of that video.
FileInfos ==
    { Image(0, 4, TRUE, FALSE, 2000),
      Image(1, 2, FALSE, TRUE, 1000),
      Image(3, 4, TRUE, FALSE, 1000),
      Image(256, 4, FALSE, FALSE, 2000),
      Video(2, <<0, 256, 3>>, 3, TRUE, 2000),
      Video(1, <<0, 256>>, 2, FALSE, 1000) }

\* The threshold 1 - bits / 64.
Threshold(bits) == Scale - ((bits * Scale) \div (BytesPerWord * BitsPerByte))

SimilarityConfigs ==
    { [imageSimilarityThreshold |-> Threshold(1), imageVideoSimilarityThreshold |-> Threshold(4),
       videoSimilarityThreshold |-> Threshold(4), stepSize |-> 1],
      [imageSimilarityThreshold |-> Threshold(2), imageVideoSimilarityThreshold |-> Threshold(1),
       videoSimilarityThreshold |-> Threshold(1), stepSize |-> 1] }

\* The promise of one batch: pending, fulfilled with clusters, or rejected.
Pending == [done |-> FALSE, rejected |-> FALSE, clusters |-> <<>>]
Fulfilled(clusters) == [done |-> TRUE, rejected |-> FALSE, clusters |-> clusters]
Rejected == [done |-> TRUE, rejected |-> TRUE, clusters |-> <<>>]

InitDedup ==
    /\ JobIdle
    /\ MergeIdle
    /\ KernelIdle
    /\ MainIdle
    /\ WorkerIdle
    /\ VideoIdle
    /\ DiscoverIdle
    /\ pcD = "start"
    /\ \E n \in 0..MaxFiles : filesIn = SubSeq(FileNames, 1, n)
    /\ fileInfo \in [Range(filesIn) -> FileInfos]
    /\ similarityConfig \in SimilarityConfigs
    /\ vpTree = Nil
    /\ results = <<>>
    /\ clustersD = <<>>
    /\ dedupResult = [uniqueFiles |-> <<>>, duplicateSets |-> <<>>]
    /\ recursiveCalls = {}

\* deduplicateFiles, lines 83-89, and the batching of parallelDBSCAN, lines
\* 108-128: the tree is built and one performDBSCAN per batch is sent.
BuildTree ==
    /\ pcD = "start"
    /\ vpTree' = VPTreebuild(filesIn)
    /\ results' = [b \in 1..numBatches(filesIn) |-> Pending]
    /\ pcD' = "dbscan"
    /\ UNCHANGED <<filesIn, fileInfo, similarityConfig, clustersD, dedupResult, recursiveCalls, notDedup>>

\* The worker of batch b answers.
PerformDBSCAN(b) ==
    /\ pcD = "dbscan"
    /\ ~results[b].done
    /\ results' = [results EXCEPT ![b] =
                      Fulfilled(performDBSCAN(vpTree, batchOf(filesIn, b)))]
    /\ UNCHANGED <<pcD, filesIn, fileInfo, similarityConfig, vpTree, clustersD,
                   dedupResult, recursiveCalls, notDedup>>

\* The worker of batch b fails: the promise of line 112 is rejected, and the
\* then of line 120 passes the rejection on.
PerformDBSCANFails(b) ==
    /\ pcD = "dbscan"
    /\ ~results[b].done
    /\ results' = [results EXCEPT ![b] = Rejected]
    /\ UNCHANGED <<pcD, filesIn, fileInfo, similarityConfig, vpTree, clustersD,
                   dedupResult, recursiveCalls, notDedup>>

\* Line 130: Promise.all rejects as soon as one promise is rejected; nothing
\* catches it in parallelDBSCAN or in deduplicateFiles, whose promise is
\* rejected in turn.
PromiseAllRejects ==
    /\ pcD = "dbscan"
    /\ \E b \in DOMAIN results : results[b].rejected
    /\ pcD' = "failed"
    /\ UNCHANGED <<filesIn, fileInfo, similarityConfig, vpTree, results, clustersD,
                   dedupResult, recursiveCalls, notDedup>>

\* parallelDBSCAN, lines 130-132: all batches have answered with clusters.
MergeBatches ==
    /\ pcD = "dbscan"
    /\ \A b \in DOMAIN results : results[b].done /\ ~results[b].rejected
    /\ clustersD' = mergeAndDeduplicate(flat([b \in DOMAIN results |-> results[b].clusters]))
    /\ pcD' = "results"
    /\ UNCHANGED <<filesIn, fileInfo, similarityConfig, vpTree, results, dedupResult,
                   recursiveCalls, notDedup>>

\* processResults, one turn of the loop of line 254; the cluster is
\* iterated in any of its orders.
ProcessCluster(clusterArray) ==
    /\ pcD = "results"
    /\ clustersD # <<>>
    /\ clusterArray \in Orderings(Head(clustersD))
    /\ dedupResult' = processCluster(dedupResult, clusterArray)
    /\ recursiveCalls' = recursiveCalls \cup callsOf(clusterArray)
    /\ clustersD' = Tail(clustersD)
    /\ UNCHANGED <<pcD, filesIn, fileInfo, similarityConfig, vpTree, results, notDedup>>

\* processResults returns, line 276.
ReturnResult ==
    /\ pcD = "results"
    /\ clustersD = <<>>
    /\ pcD' = "done"
    /\ UNCHANGED <<filesIn, fileInfo, similarityConfig, vpTree, results, clustersD,
                   dedupResult, recursiveCalls, notDedup>>

NextDedup ==
    \/ BuildTree
    \/ \E b \in DOMAIN results : PerformDBSCAN(b)
    \/ \E b \in DOMAIN results : PerformDBSCANFails(b)
    \/ PromiseAllRejects
    \/ MergeBatches
    \/ \E clusterArray \in UNION {Orderings(c) : c \in Range(clustersD)} :
           ProcessCluster(clusterArray)
    \/ ReturnResult

SpecDedup == InitDedup /\ [][NextDedup]_vars

\* parallelDBSCAN alone: the run up to the merged clusters.
NextParallel ==
    \/ BuildTree
    \/ \E b \in DOMAIN results : PerformDBSCAN(b)
    \/ \E b \in DOMAIN results : PerformDBSCANFails(b)
    \/ PromiseAllRejects
    \/ MergeBatches

SpecParallel == InitDedup /\ [][NextParallel]_vars

\* ---- properties of deduplicateFiles ----

uniqueFiles == dedupResult.uniqueFiles
duplicateSets == dedupResult.duplicateSets

\* The sets of the result: uniqueFiles, and representatives with duplicates
\* of every duplicate set.
ResultSets ==
    <<Range(uniqueFiles)>>
    \o [i \in DOMAIN duplicateSets |->
           duplicateSets[i].representatives \cup duplicateSets[i].duplicates]

\* C1: when deduplicateFiles returns, every input file is in exactly one of
\* the sets uniqueFiles and representatives-with-duplicates of the duplicate
\* sets, and these sets hold nothing but input files.
C1_ResultIsPartition ==
    pcD = "done" =>
        /\ UNION Range(ResultSets) = Range(filesIn)
        /\ \A i, j \in DOMAIN ResultSets : i # j => ResultSets[i] \cap ResultSets[j] = {}

\* A run of two batches that ends with a unique file and a duplicate set.
C1_Witness ==
    /\ pcD = "done"
    /\ Len(results) >= 2
    /\ uniqueFiles # <<>>
    /\ \E i \in DOMAIN duplicateSets : duplicateSets[i].duplicates # {}

Score(f) == calculateEntryScore(fileInfo[f])

\* C2: in every duplicate set bestFile is one of the representatives, no
\* representative is a duplicate, and no file of the set scores higher than
\* bestFile.
C2_BestFileIsTopScored ==
    \A i \in DOMAIN duplicateSets :
        LET ds == duplicateSets[i]
        IN /\ ds.bestFile \in ds.representatives
           /\ ds.representatives \cap ds.duplicates = {}
           /\ \A x \in ds.representatives \cup ds.duplicates : Score(ds.bestFile) >= Score(x)

\* A duplicate set with a video as bestFile, a still as second
\* representative and a duplicate that scores lower than bestFile.
C2_Witness ==
    \E i \in DOMAIN duplicateSets :
        LET ds == duplicateSets[i]
        IN /\ Cardinality(ds.representatives) >= 2
           /\ \E x \in ds.duplicates : Score(x) < Score(ds.bestFile)

\* The clusters of the batches that answered with clusters.
survivingClusters ==
    flat([b \in DOMAIN results |-> results[b].clusters])

\* C16: if performDBSCAN fails for one batch, only that batch is lost:
\* parallelDBSCAN leaves the DBSCAN stage by running mergeAndDeduplicate
\* over the clusters of all batches that succeeded, and returns them.
C16_FailedBatchOnlyLosesBatch ==
    [][(/\ pcD = "dbscan"
        /\ \E b \in DOMAIN results : results[b].rejected
        /\ pcD' # "dbscan")
       => (/\ pcD' = "results"
           /\ clustersD' = mergeAndDeduplicate(survivingClusters))]_vars

\* The cluster a duplicate set was made of, and the stills and videos.
clusterOf(ds) == ds.representatives \cup ds.duplicates
isStill(f) == fileInfo[f].media.duration = 0

\* The potential captures of a cluster whose best file is best: the stills
\* with at least best's pixel count, and with an imageDate if best has one.
potentialCapturesOf(cluster, best) ==
    {f \in cluster :
        /\ isStill(f)
        /\ getQuality(fileInfo[f]) >= getQuality(fileInfo[best])
        /\ (fileInfo[best].metadata.imageDate => fileInfo[f].metadata.imageDate)}

\* The unique files of the deduplication of the captures, for each order
\* the captures can be passed in.
uniqueAmong(captures) ==
    {Range(deduplicateFiles(order).uniqueFiles) : order \in Orderings(captures)}

\* The rule for one duplicate set.
selectionRule(ds) ==
    /\ Cardinality(clusterOf(ds)) >= 2
    /\ ds.bestFile \in clusterOf(ds)
    /\ \A f \in clusterOf(ds) : Score(ds.bestFile) >= Score(f)
    /\ IF isStill(ds.bestFile) \/ potentialCapturesOf(clusterOf(ds), ds.bestFile) = {}
       THEN ds.representatives = {ds.bestFile}
       ELSE /\ ds.bestFile \in ds.representatives
            /\ ds.representatives \ {ds.bestFile}
                 \in uniqueAmong(potentialCapturesOf(clusterOf(ds), ds.bestFile))
    /\ ds.duplicates = clusterOf(ds) \ ds.representatives

\* A live-photo pair: a cluster of one still and one video.
livePhotoPair(ds, still, video) ==
    /\ clusterOf(ds) = {still, video}
    /\ isStill(still)
    /\ ~isStill(video)

C20_RecursionBounded ==
    \A call \in recursiveCalls :
        /\ call.files \subseteq call.cluster
        /\ call.files # call.cluster
        /\ \A f \in call.files : isStill(f)
        /\ call.depth = 1

\* A run that ends after a recursive call on two potential captures.
C20_Witness ==
    /\ pcD = "done"
    /\ \E call \in recursiveCalls : Cardinality(call.files) >= 2

(***************************************************************************)
(* SpecKernel: the kernel applied to two hashes or to two media            *)
(***************************************************************************)

\* What a call gives: the number it returns or the error it throws.
Returns(v) == [kind |-> "number", value |-> v]
Throws(name) == [kind |-> "throw", error |-> name]

\* The hashes: buffers of 1..MaxWords whole 64-bit words (the length of a
\* hash is a multiple of 64 bits, so lines 50-59 find no remaining bytes).
\* The words differ in low bits and in a bit of the second byte.
MaxWords == 2
HashWords == {0, 1, 3, 256}
Hashes == UNION {[1..n -> HashWords] : n \in 1..MaxWords}
bitlen(hash) == Len(hash) * BytesPerWord * BitsPerByte

\* hammingDistance for any two hashes. The loop of line 45 runs over the
\* words of hash1: a longer hash2 is compared on its first words, and in a
\* shorter one view2[i] is undefined, which a BigInt cannot be mixed with.
hammingDistanceResult(hash1, hash2) ==
    IF Len(hash2) < Len(hash1) THEN Throws("TypeError")
    ELSE Returns(hammingDistance(hash1, hash2))

\* The media: those of the files of SpecDedup, and an image and two videos
\* without frames.
EmptyMedia == {[duration |-> d, frames |-> <<>>] : d \in 0..2}
Medias == {f.media : f \in FileInfos} \cup EmptyMedia

calculateSimilarityResult(media1, media2) ==
    IF calculateSimilarityThrows(media1, media2) THEN Throws("TypeError")
    ELSE Returns(calculateSimilarity(media1, media2))

\* The metric closure of lines 83-89 and 279-287 on the media of a and b.
metricResult(media1, media2) ==
    IF calculateSimilarityThrows(media1, media2) THEN Throws("TypeError")
    ELSE Returns(OneMinus(calculateSimilarity(media1, media2)))

\* The words of two views that line 46 combines: low bits, full bytes, and
\* bits of the second and third byte.
Words == HashWords \cup {255, 65535, 65536}

\* Frame sequences as getFramesInTimeRange and media.frames give them: up
\* to MaxFrames frames, one per second, none when a window holds no frame.
MaxFrames == 3
FrameWords == {0, 1, 256}
FrameSeqs ==
    UNION {{[i \in 1..n |-> Frame(ws[i], i - 1)] : ws \in [1..n -> FrameWords]}
           : n \in 0..MaxFrames}

\* A still with one frame or none, and videos of whole seconds with at
\* most one frame per second from 0 on.
ImageMedias ==
    {[duration |-> 0, frames |-> frames] : frames \in {fs \in FrameSeqs : Len(fs) <= 1}}
VideoMedias ==
    UNION {{[duration |-> d, frames |-> frames] : frames \in {fs \in FrameSeqs : Len(fs) <= d + 1}}
           : d \in 1..(MaxFrames - 1)}

\* The configurations of the catalogue, and one that steps by two seconds.
KernelConfigs ==
    SimilarityConfigs
    \cup {[imageSimilarityThreshold |-> Threshold(1), imageVideoSimilarityThreshold |-> Threshold(1),
            videoSimilarityThreshold |-> Threshold(1), stepSize |-> 2]}

KernelInputs ==
    [op : {"hammingDistance"}, a : Hashes, b : Hashes]
    \cup [op : {"popcount64"}, a : Words, b : Words]
    \cup [op : {"calculateSequenceSimilarityDTW"}, a : FrameSeqs, b : FrameSeqs]
    \cup [op : {"calculateImageVideoSimilarity"}, a : ImageMedias, b : VideoMedias]
    \cup [op : {"calculateVideoSimilarity"}, a : VideoMedias, b : VideoMedias]
    \cup [op : {"calculateSimilarity", "metric"}, a : Medias, b : Medias]

InitKernel ==
    /\ JobIdle
    /\ MergeIdle
    /\ pcD = "" /\ filesIn = <<>> /\ fileInfo = <<>>
    /\ similarityConfig \in KernelConfigs
    /\ vpTree = <<>> /\ results = <<>> /\ clustersD = <<>> /\ dedupResult = <<>>
    /\ recursiveCalls = {}
    /\ MainIdle
    /\ WorkerIdle
    /\ VideoIdle
    /\ DiscoverIdle
    /\ pcK = "input"
    /\ argsK \in KernelInputs
    /\ outK = <<>>

HammingDistance ==
    /\ pcK = "input"
    /\ argsK.op = "hammingDistance"
    /\ outK' = [ab |-> hammingDistanceResult(argsK.a, argsK.b),
                ba |-> hammingDistanceResult(argsK.b, argsK.a),
                aa |-> hammingDistanceResult(argsK.a, argsK.a)]
    /\ pcK' = "done"
    /\ UNCHANGED <<argsK, notKernel>>

\* Line 46: popcount64 of the xor of two words.
Popcount64 ==
    /\ pcK = "input"
    /\ argsK.op = "popcount64"
    /\ outK' = [ab |-> Returns(popcount64(BitXor(argsK.a, argsK.b)))]
    /\ pcK' = "done"
    /\ UNCHANGED <<argsK, notKernel>>

\* calculateSequenceSimilarityDTW on two sequences; dtw is the array when
\* the loops have ended, line 503 turns its last cell into the result.
CalculateSequenceSimilarityDTW ==
    /\ pcK = "input"
    /\ argsK.op = "calculateSequenceSimilarityDTW"
    /\ outK' = [ab |-> Returns(calculateSequenceSimilarityDTW(argsK.a, argsK.b)),
                dtw |-> dtwTable(argsK.a, argsK.b)]
    /\ pcK' = "done"
    /\ UNCHANGED <<argsK, notKernel>>

CalculateImageVideoSimilarity ==
    /\ pcK = "input"
    /\ argsK.op = "calculateImageVideoSimilarity"
    /\ outK' = [ab |-> Returns(calculateImageVideoSimilarity(argsK.a, argsK.b))]
    /\ pcK' = "done"
    /\ UNCHANGED <<argsK, notKernel>>

CalculateVideoSimilarity ==
    /\ pcK = "input"
    /\ argsK.op = "calculateVideoSimilarity"
    /\ outK' = [ab |-> Returns(calculateVideoSimilarity(argsK.a, argsK.b))]
    /\ pcK' = "done"
    /\ UNCHANGED <<argsK, notKernel>>

CalculateSimilarity ==
    /\ pcK = "input"
    /\ argsK.op = "calculateSimilarity"
    /\ outK' = [ab |-> calculateSimilarityResult(argsK.a, argsK.b),
                ba |-> calculateSimilarityResult(argsK.b, argsK.a),
                aa |-> calculateSimilarityResult(argsK.a, argsK.a)]
    /\ pcK' = "done"
    /\ UNCHANGED <<argsK, notKernel>>

Metric ==
    /\ pcK = "input"
    /\ argsK.op = "metric"
    /\ outK' = [ab |-> metricResult(argsK.a, argsK.b),
                ba |-> metricResult(argsK.b, argsK.a),
                aa |-> metricResult(argsK.a, argsK.a)]
    /\ pcK' = "done"
    /\ UNCHANGED <<argsK, notKernel>>

NextKernel ==
    \/ HammingDistance
    \/ Popcount64
    \/ CalculateSequenceSimilarityDTW
    \/ CalculateImageVideoSimilarity
    \/ CalculateVideoSimilarity
    \/ CalculateSimilarity
    \/ Metric

SpecKernel == InitKernel /\ [][NextKernel]_vars

\* ---- properties of the kernel ----

Applied(op) == pcK = "done" /\ argsK.op = op

\* C11: for all hashes a, b of equal length hammingDistance(a, b) =
\* hammingDistance(b, a), the value lies in [0, bitlen], and
\* hammingDistance(a, a) = 0.
C11_HammingDistanceContract ==
    (Applied("hammingDistance") /\ Len(argsK.a) = Len(argsK.b)) =>
        /\ outK.ab = outK.ba
        /\ outK.ab.kind = "number"
        /\ outK.ab.value \in 0..bitlen(argsK.a)
        /\ outK.aa = Returns(0)

\* C12: hammingDistance fails with a BitlenMismatch error whenever the two
\* hashes have different lengths, whichever is the longer one; it never
\* returns a number for hashes of unequal length.
C12_BitlenMismatch ==
    (Applied("hammingDistance") /\ Len(argsK.a) # Len(argsK.b)) =>
        /\ outK.ab = Throws("BitlenMismatch")
        /\ outK.ba = Throws("BitlenMismatch")

\* C13: for all pairs of media calculateSimilarity(m1, m2) =
\* calculateSimilarity(m2, m1), the value lies in [0, 1], and
\* calculateSimilarity(m, m) = 1 for every m with a non-empty frame list.
C13_SimilarityContract ==
    Applied("calculateSimilarity") =>
        /\ outK.ab = outK.ba
        /\ outK.ab.kind = "number"
        /\ outK.ab.value \in 0..Scale
        /\ (Len(argsK.a.frames) > 0 => outK.aa = Returns(Scale))

\* C14: a media with an empty frame list has similarity exactly 0 against
\* every other media, empty or not: calculateSimilarity neither throws nor
\* returns NaN or a negative value.
C14_EmptyFramesGiveZero ==
    (Applied("calculateSimilarity")
        /\ (Len(argsK.a.frames) = 0 \/ Len(argsK.b.frames) = 0)) =>
        /\ outK.ab = Returns(0)
        /\ outK.ba = Returns(0)

\* C15: the distance the metric closure hands to the tree is always a
\* number in [0, 1], never negative, above 1 or NaN.
C15_MetricInUnitInterval ==
    (Applied("metric") /\ outK.ab.kind = "number") =>
        /\ outK.ab.value # NaN
        /\ outK.ab.value \in 0..Scale

\* The number of set bits of n, and the number of bit positions in which
\* two hashes of equal length differ.
RECURSIVE bitCount(_)
bitCount(n) == IF n = 0 THEN 0 ELSE (n % 2) + bitCount(n \div 2)

RECURSIVE differingBits(_, _)
differingBits(hash1, hash2) ==
    IF hash1 = <<>> THEN 0
    ELSE bitCount(BitXor(Head(hash1), Head(hash2)))
         + differingBits(Tail(hash1), Tail(hash2))

\* C22: popcount64(n) is the number of set bits of n, in 0..64, so that
\* hammingDistance of two hashes of equal length is the number of bit
\* positions in which they differ.
C22_PopcountCountsBits ==
    /\ Applied("popcount64") =>
           /\ outK.ab = Returns(bitCount(BitXor(argsK.a, argsK.b)))
           /\ outK.ab.value \in 0..(BytesPerWord * BitsPerByte)
    /\ (Applied("hammingDistance") /\ Len(argsK.a) = Len(argsK.b)) =>
           outK.ab = Returns(differingBits(argsK.a, argsK.b))

\* C23: calculateSequenceSimilarityDTW returns 0 whenever at least one of
\* the two sequences is empty, also when both are.
C23_EmptySequenceGivesZero ==
    (Applied("calculateSequenceSimilarityDTW") /\ (argsK.a = <<>> \/ argsK.b = <<>>)) =>
        outK.ab = Returns(0)

\* The full table D of dynamic time warping, one row after the other:
\* D[0][0] = 0, D[i][0] = D[0][j] = Infinity, and D[i][j] is the cost of
\* the frames i and j plus the least of D[i-1][j-1], D[i-1][j], D[i][j-1].
\* above is row i-1, left holds the cells 0..j-1 of row i.
RECURSIVE matrixRow(_, _, _, _)
matrixRow(above, frame, seq2, left) ==
    IF Len(left) > Len(seq2) THEN left
    ELSE LET j == Len(left)
             cost == Scale - calculateImageSimilarity(frame, seq2[j])
             least == Min(above[j], Min(above[j + 1], left[j]))
         IN matrixRow(above, frame, seq2, Append(left, AddNum(cost, least)))

RECURSIVE matrixRows(_, _, _, _)
matrixRows(above, seq1, seq2, i) ==
    IF i > Len(seq1) THEN above
    ELSE matrixRows(matrixRow(above, seq1[i], seq2, <<Infinity>>), seq1, seq2, i + 1)

matrixD(seq1, seq2) ==
    matrixRows([j \in 1..(Len(seq2) + 1) |-> IF j = 1 THEN 0 ELSE Infinity],
               seq1, seq2, 1)[Len(seq2) + 1]

\* Every cost 1 - calculateImageSimilarity of a frame pair lies in [0, 1].
costsInUnit(seq1, seq2) ==
    \A i \in DOMAIN seq1 : \A j \in DOMAIN seq2 :
        Scale - calculateImageSimilarity(seq1[i], seq2[j]) \in 0..Scale

\* C24: for two non-empty sequences the rolling row ends with dtw[n] equal
\* to D[m][n] of the full table; when every frame cost lies in [0, 1] that
\* cost is at most max(m, n) and the returned similarity lies in [0, 1].
C24_RollingRowIsFullTable ==
    (/\ Applied("calculateSequenceSimilarityDTW")
     /\ argsK.a # <<>>
     /\ argsK.b # <<>>) =>
        /\ outK.dtw[Len(argsK.b) + 1] = matrixD(argsK.a, argsK.b)
        /\ costsInUnit(argsK.a, argsK.b) =>
               /\ outK.dtw[Len(argsK.b) + 1] <= Max(Len(argsK.a), Len(argsK.b)) * Scale
               /\ outK.ab.kind = "number"
               /\ outK.ab.value \in 0..Scale

\* Sequences of three and two frames with costs in [0, 1], neither equal
\* nor at the greatest cost.
C24_Witness ==
    /\ Applied("calculateSequenceSimilarityDTW")
    /\ Len(argsK.a) = MaxFrames
    /\ Len(argsK.b) = 2
    /\ costsInUnit(argsK.a, argsK.b)
    /\ outK.ab.value > 0
    /\ outK.ab.value < Scale

\* The greatest member of a non-empty set of numbers.
greatest(numbers) == CHOOSE x \in numbers : \A y \in numbers : y <= x

\* The similarities of the image to the frames of the video, in order.
frameSimilarities(image, video) ==
    [i \in DOMAIN video.frames |->
        calculateImageSimilarity(image.frames[1], video.frames[i])]

\* C25: calculateImageVideoSimilarity scans the frames in order and returns
\* at the first frame whose similarity reaches imageVideoSimilarityThreshold;
\* the result is at least the threshold exactly when some frame reaches it,
\* and it is the greatest frame similarity when none does.
C25_ImageVideoScan ==
    (/\ Applied("calculateImageVideoSimilarity")
     /\ argsK.a.frames # <<>>
     /\ argsK.b.frames # <<>>) =>
        LET similarity == frameSimilarities(argsK.a, argsK.b)
            threshold == similarityConfig.imageVideoSimilarityThreshold
            reaching == {i \in DOMAIN similarity : similarity[i] >= threshold}
        IN /\ outK.ab.kind = "number"
           /\ (outK.ab.value >= threshold) <=> (reaching # {})
           /\ reaching # {} =>
                  outK.ab.value = similarity[CHOOSE i \in reaching : \A k \in reaching : i <= k]
           /\ reaching = {} =>
                  outK.ab.value = greatest({similarity[i] : i \in DOMAIN similarity})

\* The offsets 0, stepSize, 2 * stepSize, ... up to longer.duration - W.
windowOffsets(shorterMedia, longerMedia) ==
    LET last == (longerMedia.duration - shorterMedia.duration) \div similarityConfig.stepSize
    IN [k \in 1..(last + 1) |-> (k - 1) * similarityConfig.stepSize]

shorterOf(media1, media2) == IF media1.duration <= media2.duration THEN media1 ELSE media2
longerOf(media1, media2) == IF media1.duration <= media2.duration THEN media2 ELSE media1

\* The greatest window similarity up to the first offset that reaches the
\* threshold, or over all offsets when none does.
greatestWindow(shorterMedia, longerMedia) ==
    LET offsets == windowOffsets(shorterMedia, longerMedia)
        similarity == [k \in DOMAIN offsets |->
                          windowSimilarity(shorterMedia, longerMedia, offsets[k])]
        reaching == {k \in DOMAIN offsets :
                        similarity[k] >= similarityConfig.videoSimilarityThreshold}
        stop == IF reaching = {} THEN Len(offsets)
                ELSE CHOOSE k \in reaching : \A l \in reaching : k <= l
    IN greatest({similarity[k] : k \in 1..stop})

\* The hashes of the frames of the shorter video are, in order, those of
\* the frames of the longer video in the window at some offset.
matchingClip(shorterMedia, longerMedia) ==
    LET offsets == windowOffsets(shorterMedia, longerMedia)
        hashes(frames) == [i \in DOMAIN frames |-> frames[i].hash]
    IN \E k \in DOMAIN offsets :
           hashes(shorterMedia.frames)
               = hashes(getFramesInTimeRange(longerMedia, offsets[k],
                                             offsets[k] + shorterMedia.duration))

\* C26: calculateVideoSimilarity takes the shorter video as the window,
\* tries the offsets 0, stepSize, ... up to longer.duration - W and returns
\* the greatest window similarity up to the first offset that reaches
\* videoSimilarityThreshold; when the shorter video matches a window of the
\* longer one at such an offset the result is at least the threshold.
C26_VideoWindows ==
    Applied("calculateVideoSimilarity") =>
        LET shorterMedia == shorterOf(argsK.a, argsK.b)
            longerMedia == longerOf(argsK.a, argsK.b)
        IN /\ outK.ab = Returns(greatestWindow(shorterMedia, longerMedia))
           /\ matchingClip(shorterMedia, longerMedia) =>
                  GreaterOrEqual(outK.ab.value, similarityConfig.videoSimilarityThreshold)

\* The hash of a still, and whether two stills are within the image
\* threshold: the number of differing bits is at most (1 - threshold) * bitlen.
stillHash(f) == fileInfo[f].media.frames[1].hash
withinImageThreshold(f, g) ==
    differingBits(stillHash(f), stillHash(g)) * Scale
        <= (Scale - similarityConfig.imageSimilarityThreshold) * bitlen(stillHash(f))

\* C21: for an input of two stills with hashes of equal length, the result
\* has one duplicate set holding both when their Hamming distance is at most
\* (1 - imageSimilarityThreshold) * bitlen, and otherwise both are in
\* uniqueFiles.
C21_TwoStills ==
    (/\ pcD = "done"
     /\ Len(filesIn) = 2
     /\ \A f \in Range(filesIn) : isStill(f)) =>
        IF withinImageThreshold(filesIn[1], filesIn[2])
        THEN /\ uniqueFiles = <<>>
             /\ Len(duplicateSets) = 1
             /\ clusterOf(duplicateSets[1]) = Range(filesIn)
        ELSE /\ Range(uniqueFiles) = Range(filesIn)
             /\ duplicateSets = <<>>

\* The valid-neighbour relation: a file and itself, and two files within
\* eps whose similarity is at least the threshold of their pair type.
validNeighbor(p, q) ==
    \/ q = p
    \/ /\ metric(p, q) <= Scale - minThreshold
       /\ Scale - metric(p, q) >= getAdaptiveThreshold(fileInfo[p].media, fileInfo[q].media)

symmetricRelation ==
    \A p, q \in Range(filesIn) : validNeighbor(p, q) <=> validNeighbor(q, p)

\* The range search of the tree misses no valid neighbour.
exactSearch ==
    \A p \in Range(filesIn) :
        Range(getValidNeighbors(p, createVPTreeByRoot(vpTree), Scale - minThreshold))
            = {q \in Range(filesIn) : validNeighbor(p, q)}

\* The connected component of a set of files in the valid-neighbour graph.
RECURSIVE componentOf(_)
componentOf(members) ==
    LET grown == members
                   \cup {q \in Range(filesIn) : \E p \in members : validNeighbor(p, q)}
    IN IF grown = members THEN members ELSE componentOf(grown)

connectedComponents == {componentOf({f}) : f \in Range(filesIn)}

\* C28: when the valid-neighbour relation is symmetric and the range search
\* is exact, the clusters parallelDBSCAN returns after the overlap merge are
\* exactly the connected components of the valid-neighbour graph over all
\* input files, each once, whatever the batches were.
C28_ClustersAreComponents ==
    (/\ pcD = "results"
     /\ dedupResult = [uniqueFiles |-> <<>>, duplicateSets |-> <<>>]
     /\ symmetricRelation
     /\ exactSearch) =>
        /\ Range(clustersD) = connectedComponents
        /\ Len(clustersD) = Cardinality(connectedComponents)

\* Two batches were merged under the two conditions, and a component has
\* files of both.
C28_Witness ==
    /\ pcD = "results"
    /\ Len(results) >= 2
    /\ dedupResult = [uniqueFiles |-> <<>>, duplicateSets |-> <<>>]
    /\ symmetricRelation
    /\ exactSearch
    /\ \E i \in DOMAIN clustersD :
           /\ clustersD[i] \cap Range(batchOf(filesIn, 1)) # {}
           /\ clustersD[i] \cap Range(batchOf(filesIn, 2)) # {}
    /\ Len(clustersD) >= 2

(***************************************************************************)
(* SpecWorker: workerDBSCAN on one batch of a tree over all files          *)
(***************************************************************************)

\* Line 178.
epsW == Scale - minThreshold

\* A batch of parallelDBSCAN waits for its worker.
InitWorker ==
    /\ JobIdle
    /\ MergeIdle
    /\ KernelIdle
    /\ MainIdle
    /\ VideoIdle
    /\ DiscoverIdle
    /\ pcD = ""
    /\ \E n \in 1..MaxFiles : filesIn = SubSeq(FileNames, 1, n)
    /\ fileInfo \in [Range(filesIn) -> FileInfos]
    /\ similarityConfig \in SimilarityConfigs
    /\ vpTree = <<>>
    /\ results = <<>> /\ clustersD = <<>> /\ dedupResult = <<>>
    /\ recursiveCalls = {}
    /\ pcW = "start"
    /\ \E b \in 1..numBatches(filesIn) : chunkW = batchOf(filesIn, b)
    /\ iW = 1
    /\ visitedW = {}
    /\ clustersW = <<>>
    /\ clusterW = {}
    /\ stackW = <<>>
    /\ validNeighborsW = <<>>
    /\ neighborsW = <<>>
    /\ callsW = [f \in Range(filesIn) |-> 0]

\* The tree, the file infos and the configuration stay as they are during
\* the call, so getValidNeighbors answers the same for a file whenever it
\* is asked: validNeighborsW holds these answers.
startWorker(root) ==
    /\ vpTree' = root
    /\ validNeighborsW' = [f \in Range(filesIn) |->
                               getValidNeighbors(f, createVPTreeByRoot(root), epsW)]

\* The pool hands the batch and the root of the tree over all files to a
\* worker, which calls workerDBSCAN: lines 175-178.
StartWorker ==
    /\ pcW = "start"
    /\ startWorker(VPTreebuild(filesIn))
    /\ pcW' = "for"
    /\ UNCHANGED <<chunkW, iW, visitedW, clustersW, clusterW, stackW, neighborsW, callsW,
                   jobVars, mergeVars, kernelVars, mainVars, videoVars, discoverVars, pcD,
                   filesIn,
                   fileInfo, similarityConfig, results, clustersD, dedupResult,
                   recursiveCalls>>

\* Lines 188 and 205: the call is counted and its result kept.
callGetValidNeighbors(point, neighbors) ==
    /\ neighborsW' = [point |-> point, result |-> neighbors]
    /\ callsW' = [callsW EXCEPT ![point] = @ + 1]

\* Line 180 when the batch is exhausted; line 219.
LoopEnd ==
    /\ pcW = "for"
    /\ iW > Len(chunkW)
    /\ pcW' = "done"
    /\ UNCHANGED <<chunkW, iW, visitedW, clustersW, clusterW, stackW,
                   validNeighborsW, neighborsW, callsW, notWorker>>

\* Line 182: a point that is visited already is passed over.
SkipVisited ==
    /\ pcW = "for"
    /\ iW <= Len(chunkW)
    /\ chunkW[iW] \in visitedW
    /\ iW' = iW + 1
    /\ UNCHANGED <<pcW, chunkW, visitedW, clustersW, clusterW, stackW,
                   validNeighborsW, neighborsW, callsW, notWorker>>

\* Lines 184-195 for the unvisited point and its valid neighbours: a point
\* with fewer than minPts neighbours is a cluster of its own, another one
\* starts a cluster and the stack.
visitPoint(point, neighbors) ==
    /\ visitedW' = visitedW \cup {point}
    /\ callGetValidNeighbors(point, neighbors)
    /\ IF Len(neighbors) < minPts
       THEN /\ clustersW' = Append(clustersW, {point})
            /\ iW' = iW + 1
            /\ UNCHANGED <<pcW, clusterW, stackW>>
       ELSE /\ clusterW' = {point}
            /\ stackW' = neighbors
            /\ pcW' = "while"
            /\ UNCHANGED <<clustersW, iW>>

VisitPoint ==
    /\ pcW = "for"
    /\ iW <= Len(chunkW)
    /\ chunkW[iW] \notin visitedW
    /\ visitPoint(chunkW[iW], validNeighborsW[chunkW[iW]])
    /\ UNCHANGED <<chunkW, validNeighborsW, notWorker>>

\* Lines 198-199: the popped file is visited already.
PopVisited ==
    /\ pcW = "while"
    /\ stackW # <<>>
    /\ stackW[Len(stackW)] \in visitedW
    /\ stackW' = SubSeq(stackW, 1, Len(stackW) - 1)
    /\ UNCHANGED <<pcW, chunkW, iW, visitedW, clustersW, clusterW,
                   validNeighborsW, neighborsW, callsW, notWorker>>

\* Lines 202-213 without line 201: the file joins the cluster unmarked.
expandUnmarked(current, neighbors) ==
    /\ visitedW' = visitedW
    /\ clusterW' = clusterW \cup {current}
    /\ callGetValidNeighbors(current, neighbors)
    /\ stackW' = SubSeq(stackW, 1, Len(stackW) - 1)
                    \o pushNeighbors(neighbors, visitedW)

\* Lines 201-213 for the popped unvisited file and its valid neighbours.
expand(current, neighbors) ==
    /\ visitedW' = visitedW \cup {current}
    /\ clusterW' = clusterW \cup {current}
    /\ callGetValidNeighbors(current, neighbors)
    /\ stackW' = SubSeq(stackW, 1, Len(stackW) - 1)
                    \o pushNeighbors(neighbors, visitedW \cup {current})

Expand ==
    /\ pcW = "while"
    /\ stackW # <<>>
    /\ stackW[Len(stackW)] \notin visitedW
    /\ expand(stackW[Len(stackW)], validNeighborsW[stackW[Len(stackW)]])
    /\ UNCHANGED <<pcW, chunkW, iW, clustersW, validNeighborsW, notWorker>>

\* Line 216: the stack is empty, the cluster is complete.
PushCluster ==
    /\ pcW = "while"
    /\ stackW = <<>>
    /\ clustersW' = Append(clustersW, clusterW)
    /\ clusterW' = {}
    /\ iW' = iW + 1
    /\ pcW' = "for"
    /\ UNCHANGED <<chunkW, visitedW, stackW, validNeighborsW, neighborsW, callsW,
                   notWorker>>

\* A statement of the running call.
WorkerStep ==
    \/ LoopEnd
    \/ SkipVisited
    \/ VisitPoint
    \/ PopVisited
    \/ Expand
    \/ PushCluster

NextWorker ==
    \/ StartWorker
    \/ LoopEnd
    \/ SkipVisited
    \/ VisitPoint
    \/ PopVisited
    \/ Expand
    \/ PushCluster

SpecWorker == InitWorker /\ [][NextWorker]_vars

\* A call that has begun is a single thread of control whose awaits are
\* answered by its own search of the tree: it keeps taking steps until it
\* returns. When the pool starts the call is not the worker's matter.
SpecWorkerFair == SpecWorker /\ WF_vars(WorkerStep)

\* The statements of the worker compute what workerDBSCAN computes.
WorkerAgrees ==
    pcW = "done" => clustersW = workerDBSCAN(chunkW, createVPTreeByRoot(vpTree))

\* The similarity of two files and the threshold of their pair type.
similarityOf(f, g) == calculateSimilarity(fileInfo[f].media, fileInfo[g].media)
pairThreshold(f, g) == getAdaptiveThreshold(fileInfo[f].media, fileInfo[g].media)

\* The points the range search around point gives within eps.
foundWithin(point, eps) ==
    Range(pointsOf(search(createVPTreeByRoot(vpTree), point, eps)))

\* C27: getValidNeighbors(p) returns p itself, when the search gives it, and
\* beside it exactly those results of the range search within
\* eps = 1 - min(thresholds) whose similarity to p is at least the threshold
\* of their pair type; no pair that passes its threshold lies beyond eps.
C27_ValidNeighbors ==
    neighborsW # <<>> =>
        LET p == neighborsW.point
            found == foundWithin(p, Scale - minThreshold)
        IN /\ Range(neighborsW.result)
                = {q \in found : q = p \/ similarityOf(p, q) >= pairThreshold(p, q)}
           /\ \A q \in Range(filesIn) :
                  similarityOf(p, q) >= pairThreshold(p, q) =>
                      metric(p, q) <= Scale - minThreshold

\* A call whose search gave a file that the pair threshold then removed,
\* beside one that it kept.
C27_Witness ==
    /\ neighborsW # <<>>
    /\ \E q \in foundWithin(neighborsW.point, Scale - minThreshold) :
           q \notin Range(neighborsW.result)
    /\ \E q \in Range(neighborsW.result) : q # neighborsW.point

\* The clusters of the worker, the one being grown last.
allClustersW == clustersW \o (IF pcW = "while" THEN <<clusterW>> ELSE <<>>)

\* C29: in one workerDBSCAN call the clusters are pairwise disjoint and at
\* the end every file of the batch is in exactly one of them; a file joins a
\* cluster only in the step that first marks it visited, and a file that is
\* visited never joins a later cluster.
C29_ClustersDisjoint ==
    /\ [](\A i, j \in DOMAIN allClustersW :
              i # j => allClustersW[i] \cap allClustersW[j] = {})
    /\ [](pcW = "done" =>
              \A f \in Range(chunkW) :
                  Cardinality({i \in DOMAIN clustersW : f \in clustersW[i]}) = 1)
    /\ [][\A i \in DOMAIN allClustersW' : \A f \in allClustersW'[i] :
              IF f \in visitedW
              THEN i \in DOMAIN allClustersW /\ f \in allClustersW[i]
              ELSE f \in visitedW']_vars

\* A finished call on a batch of two that gave a grown cluster and, after
\* passing over a visited file, a cluster of one file.
C29_Witness ==
    /\ pcW = "done"
    /\ Len(chunkW) = BatchSize
    /\ \E i, j \in DOMAIN clustersW :
           Cardinality(clustersW[i]) >= 2 /\ Cardinality(clustersW[j]) = 1

\* C30: a workerDBSCAN call ends for every batch and tree: no file is marked
\* visited twice, getValidNeighbors is called at most once per file, and the
\* stack runs empty, so the call returns.
C30_WorkerTerminates ==
    /\ [][\A f \in DOMAIN callsW :
              callsW'[f] # callsW[f] =>
                  f \notin visitedW /\ f \in visitedW' /\ callsW[f] = 0]_vars
    /\ [](\A f \in DOMAIN callsW : callsW[f] <= 1 /\ (callsW[f] = 1 <=> f \in visitedW))
    /\ (pcW = "while") ~> (pcW = "for" /\ stackW = <<>>)
    /\ (pcW = "for") ~> (pcW = "done" /\ stackW = <<>>)

\* A call that returned after growing a cluster from a stack.
C30_Witness ==
    /\ pcW = "done"
    /\ \E f \in DOMAIN callsW : callsW[f] = 1 /\ f \notin Range(chunkW)
    /\ \E f \in DOMAIN callsW : callsW[f] = 0

(***************************************************************************)
(* SpecVideo: the window loop of calculateVideoSimilarity                  *)
(***************************************************************************)

\* --step-size is read with parseInt and not checked further: the step is
\* the integer the text denotes, negative or zero as well, or NaN when the
\* text denotes none. 1 is the default.
StepSizes == {-1, 0, 1, 2, NaN}

\* Thresholds of 1: only equal frames match.
VideoConfigs ==
    {[imageSimilarityThreshold |-> Threshold(0), imageVideoSimilarityThreshold |-> Threshold(0),
      videoSimilarityThreshold |-> Threshold(0), stepSize |-> step] : step \in StepSizes}

\* Videos whose frames differ in one low bit at most.
VideoClips ==
    {video \in VideoMedias : \A i \in DOMAIN video.frames : video.frames[i].hash[1] \in {0, 1}}

InitVideo ==
    /\ JobIdle
    /\ MergeIdle
    /\ KernelIdle
    /\ MainIdle
    /\ WorkerIdle
    /\ DiscoverIdle
    /\ pcD = "" /\ filesIn = <<>> /\ fileInfo = <<>>
    /\ similarityConfig \in VideoConfigs
    /\ vpTree = <<>> /\ results = <<>> /\ clustersD = <<>> /\ dedupResult = <<>>
    /\ recursiveCalls = {}
    /\ pcV = "start"
    /\ argsV \in VideoClips \X VideoClips
    /\ startTimeV = 0
    /\ bestSimilarityV = 0
    /\ windowSimilarityV = <<>>

\* No frame has a timestamp below 0 and no window is longer than
\* MaxFrames - 1 seconds: every window that starts at -MaxFrames or before
\* holds no frame, and the start times below are counted as -MaxFrames.
startFloor == -MaxFrames

\* longerMedia.duration - windowDuration of line 446.
lastStart(media1, media2) ==
    Max(media1.duration, media2.duration) - Min(media1.duration, media2.duration)

\* Lines 436-443; the media do not change during the call, so the window at
\* a start time has the same similarity whenever the loop comes to it.
startVideo(shorterMedia, longerMedia) ==
    /\ windowSimilarityV' = [startTime \in startFloor..lastStart(shorterMedia, longerMedia) |->
                                windowSimilarity(shorterMedia, longerMedia, startTime)]
    /\ startTimeV' = 0
    /\ bestSimilarityV' = 0

StartVideo ==
    /\ pcV = "start"
    /\ startVideo(IF argsV[1].duration <= argsV[2].duration THEN argsV[1] ELSE argsV[2],
                  IF argsV[1].duration <= argsV[2].duration THEN argsV[2] ELSE argsV[1])
    /\ pcV' = "loop"
    /\ UNCHANGED <<argsV, notVideo>>

\* Line 446: startTime <= longerMedia.duration - windowDuration.
loopCondition == startTimeV # NaN /\ startTimeV <= lastStart(argsV[1], argsV[2])

\* Line 447: startTime += stepSize.
nextStartTime ==
    IF similarityConfig.stepSize = NaN THEN NaN
    ELSE Max(startTimeV + similarityConfig.stepSize, startFloor)

\* Lines 462-467 for the new bestSimilarity: break and return, or step on.
afterWindow(best) ==
    /\ bestSimilarityV' = best
    /\ IF GreaterOrEqual(best, similarityConfig.videoSimilarityThreshold)
       THEN pcV' = "done" /\ UNCHANGED startTimeV
       ELSE startTimeV' = nextStartTime /\ UNCHANGED pcV

\* One turn of the loop, lines 448-467.
Window ==
    /\ pcV = "loop"
    /\ loopCondition
    /\ afterWindow(Mathmax(bestSimilarityV, windowSimilarityV[startTimeV]))
    /\ UNCHANGED <<argsV, windowSimilarityV, notVideo>>

\* The condition of line 446 fails: line 469.
LoopExit ==
    /\ pcV = "loop"
    /\ ~loopCondition
    /\ pcV' = "done"
    /\ UNCHANGED <<argsV, startTimeV, bestSimilarityV, windowSimilarityV, notVideo>>

VideoStep == Window \/ LoopExit

NextVideo ==
    \/ StartVideo
    \/ Window
    \/ LoopExit

SpecVideo == InitVideo /\ [][NextVideo]_vars

\* The function is synchronous: once called it runs its loop on.
SpecVideoFair == SpecVideo /\ WF_vars(VideoStep)

\* For a positive step the loop computes what calculateVideoSimilarity
\* computes.
VideoAgrees ==
    (pcV = "done" /\ similarityConfig.stepSize \in {1, 2}) =>
        bestSimilarityV = calculateVideoSimilarity(argsV[1], argsV[2])

MaxDirs == 3
MaxConcurrency == 2

\* The names of the files of a directory: a stem and what follows the last dot.
NameOrder == <<[stem |-> "p", ext |-> "JPG"], [stem |-> "n", ext |-> "txt"]>>
EntryNames == Range(NameOrder)

\* String.prototype.toLowerCase on the extensions that occur.
toLowerCase(ext) == IF ext = "JPG" THEN "jpg" ELSE ext

\* Some of the members of the list of lines 264-276.
ALL_SUPPORTED_EXTENSIONS == {"jpg", "png", "cr2", "mp4"}

\* Line 373: extname(entry.name).slice(1).toLowerCase() is in the list.
supported(name) == toLowerCase(name.ext) \in ALL_SUPPORTED_EXTENSIONS

\* A finite tree of directories: directory 1 is the source directory, every
\* other one lies in a directory of a smaller number. readdir lists the
\* entries in an order of the file system's choosing: here the files before
\* the directories or after them.
Trees ==
    UNION {[parent : {f \in [2..n -> 1..n] : \A d \in 2..n : f[d] < d},
            names : [1..n -> SUBSET EntryNames],
            dirsFirst : BOOLEAN,
            concurrency : 1..MaxConcurrency] : n \in 1..MaxDirs}

DirsOf(tree) == DOMAIN tree.names

RECURSIVE ascending(_)
ascending(S) ==
    IF S = {} THEN <<>>
    ELSE LET least == CHOOSE x \in S : \A y \in S : x <= y
         IN <<least>> \o ascending(S \ {least})

\* readdir(dirPath, {withFileTypes: true}): the Dirents of the directory.
readdir(tree, d) ==
    LET subdirs == ascending({e \in DOMAIN tree.parent : tree.parent[e] = d})
        dirents == [i \in DOMAIN subdirs |-> [isDirectory |-> TRUE, dir |-> subdirs[i]]]
        keep(name) == name \in tree.names[d]
        listed == SelectSeq(NameOrder, keep)
        fileents == [i \in DOMAIN listed |-> [isDirectory |-> FALSE, name |-> listed[i]]]
    IN IF tree.dirsFirst THEN dirents \o fileents ELSE fileents \o dirents

\* join(dirPath, entry.name)
join(d, name) == <<d, name>>

IdleScan == [pc |-> "idle", entries |-> <<>>]

\* Semaphore.acquire by the scan of directory d: a permit is taken when one
\* is free and nobody queues, else the scan queues.
acquireNow(sem) == sem.value >= 1 /\ sem.queue = <<>>
acquirePermit(sem, d) ==
    IF acquireNow(sem) THEN [sem EXCEPT !.value = @ - 1]
    ELSE [sem EXCEPT !.queue = Append(@, d)]

\* release(): the permit goes back, and to the first scan of the queue when
\* there is one.
releasePermit(sem) ==
    IF sem.queue = <<>> THEN [sem EXCEPT !.value = @ + 1]
    ELSE [sem EXCEPT !.queue = Tail(@)]

\* scanDirectory(d) settles (always fulfilled: the catch of line 384), and
\* the finally of lines 370-372 or 392-394 releases its permit.
settle(d, outcome) ==
    /\ semaphore' = releasePermit(semaphore)
    /\ scans' = [e \in DOMAIN scans |->
                   IF e = d THEN [pc |-> outcome, entries |-> <<>>]
                   ELSE IF semaphore.queue # <<>> /\ e = Head(semaphore.queue)
                        THEN [scans[e] EXCEPT !.pc = "granted"]
                        ELSE scans[e]]

InitDiscover ==
    /\ JobIdle
    /\ MergeIdle
    /\ DedupIdle
    /\ KernelIdle
    /\ MainIdle
    /\ WorkerIdle
    /\ VideoIdle
    /\ pcF = "start"
    /\ treeF \in Trees
    /\ semaphore = [value |-> treeF.concurrency, queue |-> <<>>]
    /\ scans = [d \in DirsOf(treeF) |-> IdleScan]
    /\ allFiles = <<>>

\* Lines 390-395: the loop over the one source directory takes a permit of
\* the fresh semaphore and starts scanDirectory, which runs up to its
\* readdir; discoverFiles goes on to waitForUnlock.
StartDiscover ==
    /\ pcF = "start"
    /\ semaphore' = acquirePermit(semaphore, 1)
    /\ scans' = [scans EXCEPT ![1].pc = "readdir"]
    /\ pcF' = "wait"
    /\ UNCHANGED <<treeF, allFiles, notDiscover>>

\* Line 364: readdir resolves.
Readdir(d) ==
    /\ scans[d].pc = "readdir"
    /\ scans' = [scans EXCEPT ![d] = [pc |-> "loop", entries |-> readdir(treeF, d)]]
    /\ UNCHANGED <<pcF, treeF, semaphore, allFiles, notDiscover>>

\* Line 364: readdir rejects (the directory cannot be read); lines 384-386.
ReaddirFails(d) ==
    /\ scans[d].pc = "readdir"
    /\ settle(d, "failed")
    /\ UNCHANGED <<pcF, treeF, allFiles, notDiscover>>

\* Lines 373-382: an entry that is no directory.
FileEntry(d) ==
    /\ scans[d].pc = "loop"
    /\ scans[d].entries # <<>>
    /\ ~Head(scans[d].entries).isDirectory
    /\ allFiles' = IF supported(Head(scans[d].entries).name)
                   THEN Append(allFiles, join(d, Head(scans[d].entries).name))
                   ELSE allFiles
    /\ scans' = [scans EXCEPT ![d].entries = Tail(@)]
    /\ UNCHANGED <<pcF, treeF, semaphore, notDiscover>>

\* Lines 368-369: an entry that is a directory: await semaphore.acquire().
DirEntry(d) ==
    /\ scans[d].pc = "loop"
    /\ scans[d].entries # <<>>
    /\ Head(scans[d].entries).isDirectory
    /\ semaphore' = acquirePermit(semaphore, d)
    /\ scans' = [scans EXCEPT ![d].pc = IF acquireNow(semaphore) THEN "granted" ELSE "acquire"]
    /\ UNCHANGED <<pcF, treeF, allFiles, notDiscover>>

\* Lines 370-372: the permit is there: scanDirectory(entryPath) is started
\* and the loop goes on.
StartChild(d) ==
    /\ scans[d].pc = "granted"
    /\ scans' = [scans EXCEPT ![d] = [pc |-> "loop", entries |-> Tail(@.entries)],
                              ![Head(scans[d].entries).dir].pc = "readdir"]
    /\ UNCHANGED <<pcF, treeF, semaphore, allFiles, notDiscover>>

\* Line 366: the entries are exhausted.
ScanEnd(d) ==
    /\ scans[d].pc = "loop"
    /\ scans[d].entries = <<>>
    /\ settle(d, "done")
    /\ UNCHANGED <<pcF, treeF, allFiles, notDiscover>>

\* Line 398: waitForUnlock(concurrency) resolves once that many permits are
\* free; lines 400-405: allFiles is returned.
WaitForUnlock ==
    /\ pcF = "wait"
    /\ semaphore.value >= treeF.concurrency
    /\ pcF' = "done"
    /\ UNCHANGED <<treeF, semaphore, scans, allFiles, notDiscover>>

NextDiscover ==
    \/ StartDiscover
    \/ \E d \in DirsOf(treeF) : Readdir(d)
    \/ \E d \in DirsOf(treeF) : ReaddirFails(d)
    \/ \E d \in DirsOf(treeF) : FileEntry(d)
    \/ \E d \in DirsOf(treeF) : DirEntry(d)
    \/ \E d \in DirsOf(treeF) : StartChild(d)
    \/ \E d \in DirsOf(treeF) : ScanEnd(d)
    \/ WaitForUnlock

SpecDiscover == InitDiscover /\ [][NextDiscover]_vars

\* The event loop runs every continuation that is ready.
SpecDiscoverFair == SpecDiscover /\ WF_vars(NextDiscover)

\* The scanDirectory calls that have been started and have not settled.
Running == {d \in DirsOf(treeF) : scans[d].pc \in {"readdir", "loop", "acquire", "granted"}}

\* Every supported file of the directories that were read is in the list.
listsReadDirectories ==
    \A d \in DirsOf(treeF) : scans[d].pc = "done" =>
      \A name \in treeF.names[d] : supported(name) =>
        \E i \in DOMAIN allFiles : allFiles[i] = join(d, name)

\* A directory is left out only when it or a directory above it could not
\* be read.
RECURSIVE unreadAbove(_)
unreadAbove(d) ==
    \/ scans[d].pc = "failed"
    \/ d # 1 /\ unreadAbove(treeF.parent[d])

\* What discoverFiles has when it returns: no scanDirectory call runs, each
\* permit is free, and the list holds the supported files of every
\* directory that could be read.
ReturnsWhenScansSettled ==
    pcF = "done" =>
      /\ Running = {}
      /\ semaphore = [value |-> treeF.concurrency, queue |-> <<>>]
      /\ listsReadDirectories
      /\ \A d \in DirsOf(treeF) : scans[d].pc = "idle" => unreadAbove(d)

\* C34 as stated: discoverFiles terminates for every finite tree and every
\* concurrency of 1 or more, and when it returns no scanDirectory call is
\* running and the list holds every supported file that could be read.
C34_DiscoverFilesTerminates ==
    /\ <>(pcF = "done")
    /\ [](pcF = "done" => Running = {} /\ listsReadDirectories)

(***************************************************************************)
(* SpecMain: one run of main                                               *)
(***************************************************************************)

\* The largest number of files stage 1 discovers.
MaxDiscovered == 3

Stages == {"stage1", "stage2", "stage3", "stage4"}

\* main has registered exitHandler for SIGINT and SIGTERM (lines 22-23),
\* parsed the command line, and awaits Context.ensureInitialized.
InitMain ==
    /\ JobIdle
    /\ MergeIdle
    /\ DedupIdle
    /\ KernelIdle
    /\ WorkerIdle
    /\ VideoIdle
    /\ DiscoverIdle
    /\ pcMain = "init"
    /\ completed = {}
    /\ discoveredFiles = 0
    /\ gatherFileInfoResult = 0
    /\ deduplicationResult = 0
    /\ transferInvoked = FALSE
    /\ thrown = "none"
    /\ interrupted = FALSE
    /\ exitCode = "none"

\* process.exit(code) and the end of the process when nothing is left to
\* run: without a code the process exits with process.exitCode, which
\* nothing sets, that is with 0.
processexit(code) ==
    /\ pcMain' = "exited"
    /\ exitCode' = code

\* Lines 166-172: the context and the organizer are there, stage 1 calls
\* discoverFiles.
EnsureInitialized ==
    /\ pcMain = "init"
    /\ pcMain' = "stage1"
    /\ UNCHANGED <<completed, discoveredFiles, gatherFileInfoResult, deduplicationResult,
                   transferInvoked, thrown, interrupted, exitCode, notMain>>

\* Lines 166-168 reject outside the try of main: main rejects and the catch
\* of lines 243-246 exits with 1.
EnsureInitializedFails ==
    /\ pcMain = "init"
    /\ thrown' = "init"
    /\ processexit(1)
    /\ UNCHANGED <<completed, discoveredFiles, gatherFileInfoResult, deduplicationResult,
                   transferInvoked, interrupted, notMain>>

\* Lines 172-181: discoverFiles is fulfilled, stage 2 calls gatherFileInfo.
Stage1(n) ==
    /\ pcMain = "stage1"
    /\ discoveredFiles' = n
    /\ completed' = completed \cup {1}
    /\ pcMain' = "stage2"
    /\ UNCHANGED <<gatherFileInfoResult, deduplicationResult, transferInvoked, thrown,
                   interrupted, exitCode, notMain>>

\* Lines 179-187: gatherFileInfo is fulfilled with n valid files, stage 3
\* calls deduplicateFiles.
Stage2(n) ==
    /\ pcMain = "stage2"
    /\ n <= discoveredFiles
    /\ gatherFileInfoResult' = n
    /\ completed' = completed \cup {2}
    /\ pcMain' = "stage3"
    /\ UNCHANGED <<discoveredFiles, deduplicationResult, transferInvoked, thrown,
                   interrupted, exitCode, notMain>>

\* Lines 186-201: deduplicateFiles is fulfilled with n unique files, stage 4
\* calls transferFiles.
Stage3(n) ==
    /\ pcMain = "stage3"
    /\ n <= gatherFileInfoResult
    /\ (gatherFileInfoResult > 0 => n > 0)
    /\ deduplicationResult' = n
    /\ completed' = completed \cup {3}
    /\ transferInvoked' = TRUE
    /\ pcMain' = "stage4"
    /\ UNCHANGED <<discoveredFiles, gatherFileInfoResult, thrown, interrupted, exitCode,
                   notMain>>

\* Lines 192-211: transferFiles is fulfilled, the results are printed and
\* main returns.
Stage4 ==
    /\ pcMain = "stage4"
    /\ completed' = completed \cup {4}
    /\ pcMain' = "returned"
    /\ UNCHANGED <<discoveredFiles, gatherFileInfoResult, deduplicationResult,
                   transferInvoked, thrown, interrupted, exitCode, notMain>>

\* The promise of the running stage is rejected: the catch of lines 212-214
\* prints the error and main returns.
StageFails ==
    /\ pcMain \in Stages
    /\ thrown' = pcMain
    /\ pcMain' = "returned"
    /\ UNCHANGED <<completed, discoveredFiles, gatherFileInfoResult, deduplicationResult,
                   transferInvoked, interrupted, exitCode, notMain>>

\* Lines 241-242: await main() is over without an error; the process ends
\* with the default code.
MainReturned ==
    /\ pcMain = "returned"
    /\ processexit(0)
    /\ UNCHANGED <<completed, discoveredFiles, gatherFileInfoResult, deduplicationResult,
                   transferInvoked, thrown, interrupted, notMain>>

\* exitHandler without its last line: the handler returns and main goes on.
exitHandlerReturns ==
    /\ pcMain \notin {"", "exited"}
    /\ ~interrupted
    /\ interrupted' = TRUE
    /\ UNCHANGED <<pcMain, completed, discoveredFiles, gatherFileInfoResult,
                   deduplicationResult, transferInvoked, thrown, exitCode, notMain>>

\* Lines 15-19: SIGINT or SIGTERM while the process runs; process.exit() is
\* called without a code.
exitHandler ==
    /\ pcMain \notin {"", "exited"}
    /\ interrupted' = TRUE
    /\ processexit(0)
    /\ UNCHANGED <<completed, discoveredFiles, gatherFileInfoResult, deduplicationResult,
                   transferInvoked, thrown, notMain>>

NextMain ==
    \/ EnsureInitialized
    \/ EnsureInitializedFails
    \/ \E n \in 0..MaxDiscovered : Stage1(n)
    \/ \E n \in 0..MaxDiscovered : Stage2(n)
    \/ \E n \in 0..MaxDiscovered : Stage3(n)
    \/ Stage4
    \/ StageFails
    \/ MainReturned
    \/ exitHandler

SpecMain == InitMain /\ [][NextMain]_vars

\* ---- properties of main ----

\* C17: the process exits with code 0 after a successful run, with code 1
\* when a stage throws an unhandled error, and with code 130 when it is
\* interrupted by SIGINT or SIGTERM.
C17_ExitCodes ==
    pcMain = "exited" =>
        exitCode = IF interrupted THEN 130
                   ELSE IF thrown # "none" THEN 1
                   ELSE 0

\* C18: if the interrupt comes before stage 4 has started, transferFiles is
\* never invoked; and transferFiles is invoked only after stages 1, 2 and 3
\* have each completed without error.
C18_NoTransferAfterInterrupt ==
    /\ [](transferInvoked => ({1, 2, 3} \subseteq completed /\ thrown \in {"none", "stage4"}))
    /\ [][(interrupted /\ ~transferInvoked) => ~transferInvoked']_vars

\* The handler ran during stage 3, after stages 1 and 2: the process is over
\* and transferFiles was not called.
C18_Witness ==
    /\ interrupted
    /\ pcMain = "exited"
    /\ completed = {1, 2}
    /\ gatherFileInfoResult > 0
    /\ ~transferInvoked

====
